---------------------------- MODULE Spec2Model ----------------------------
(***************************************************************************)
(* Pathfinder: the risk-aware route planner (pathfinder/risk_tsp.py), the   *)
(* Gamma-Poisson rate estimator and road scores (pathfinder/bayesian.py)   *)
(* and the monthly aggregation (pathfinder/etl/events_to_monthly.py).      *)
(*                                                                         *)
(* Python lists are sequences; a Python index i is position i + 1 here.    *)
(* Real numbers are exact rationals [num, den] with den >= 0; den = 0      *)
(* stands for the IEEE results of a float division by zero (inf, -inf,     *)
(* nan by the sign of num).  Rounding of binary floats is not modelled.    *)
(***************************************************************************)
EXTENDS Integers, Sequences, FiniteSets, TLC

VARIABLES
    pc,          \* position of the running call
    exc,         \* exception that left the call: "None" or its Python name
    ret,         \* value the call returned (<<>> until it returns)
    df,          \* risk_tsp: the road-segment frame, one record per row
    alpha,       \* risk_tsp: the risk weight of distance_matrix / plan_route
    mat,         \* risk_tsp: the matrix handed to nearest_neighbor
    start,       \* nearest_neighbor: the start argument
    visited,     \* nearest_neighbor: visited
    order,       \* nearest_neighbor: order
    it,          \* nearest_neighbor: iterations of `for _ in range(n - 1)` done
    admin_df,    \* bayesian: the monthly frame, rows <<admin2, events>>
    prior,       \* bayesian: the hyperparameters [alpha, beta]
    grouped,     \* bayesian: the frame estimate_event_rate returns
    call,        \* the function the caller invoked
    method,      \* plan_route: the method argument
    ortools,     \* risk_tsp: _ORTOOLS_AVAILABLE
    solver,      \* plan_route: the solver function it called ("None" before)
    assignment,  \* ortools_tsp: what SolveWithParameters returned
    route,       \* plan_route: the frame it returns (<<>> until it returns)
    events,      \* events_to_monthly: the raw event frame
    aggregated,  \* events_to_monthly: the frame aggregate_events_dataframe returns
    name,        \* events_to_monthly: the identifier argument, a list of characters
    sql,         \* events_to_monthly: the table names written into SQL text so far
    monthly,     \* write_monthly_table: the frame to write
    ddl,         \* the database: "transactional" or "implicit_commit" DDL
    db,          \* the tables as the writing connection sees them
    committed,   \* the tables as every other connection sees them
    old,         \* the committed tables when write_monthly_table was called
    csv,         \* events_to_monthly.main: the file at --source-csv
    args,        \* events_to_monthly.main: the parsed command line
    steps,       \* events_to_monthly.main: the pipeline functions called so far
    dest,        \* fetch_hdx_sudan_admin2: the CSV file at dest
    meta,        \* fetch_hdx_sudan_admin2: last_modified in the metadata file, 0 = None
    remote,      \* HDX: last_modified of the CSV resource, 0 = None
    runs,        \* fetch_hdx_sudan_admin2: runs of main started
    loaded,      \* fetch_hdx_sudan_admin2: the files handed to load_admin2_monthly_csv
    admin2_df,   \* sudan_admin2_monthly: the Admin2 frame
    monthly_df   \* sudan_admin2_monthly: the frame aggregate_country_monthly returns

vars == <<pc, exc, ret, df, alpha, mat, start, visited, order, it,
          admin_df, prior, grouped,
          call, method, ortools, solver, assignment, route,
          events, aggregated, name, sql, monthly, ddl, db, committed, old,
          csv, args, steps, dest, meta, remote, runs, loaded,
          admin2_df, monthly_df>>

routeVars == <<df, alpha, mat, start, visited, order, it>>
bayesVars == <<admin_df, prior, grouped>>
planVars == <<call, method, ortools, solver, assignment, route>>
etlVars == <<events, aggregated>>
storeVars == <<name, sql, monthly, ddl, db, committed, old>>
mainVars == <<csv, args, steps>>
fetchVars == <<dest, meta, remote, runs, loaded>>
countryVars == <<admin2_df, monthly_df>>

----------------------------------------------------------------------------
\* Bounds of the model.

MaxN == 3        \* most rows of a matrix or of a road frame
MaxW == 1        \* largest weight of a hand-made matrix
MaxRows == 3     \* most rows of the monthly frame
MaxEvents == 2   \* largest monthly event count
MaxSegments == 3 \* most road segments plan_route reads
MaxRoads == 2    \* most roads road_segment_risk reads
MaxRateRows == 1 \* most monthly rows behind the rates of road_segment_risk
MaxEventRows == 2 \* most rows of the raw event frame
MaxCallN == 2    \* most nodes of a matrix in a sequence of calls
MaxNameLen == 4  \* most characters of an identifier argument
MaxCsvRows == 1  \* most data lines of the CSV snapshot
MaxAdmin2Rows == 2 \* most rows of the Admin2 frame
MaxRuns == 4     \* most runs of fetch_hdx_sudan_admin2
MaxVersion == 2  \* latest last_modified of the resource at HDX

----------------------------------------------------------------------------
\* Exact rationals.

Rat(n, d) == [num |-> n, den |-> d]

RatInt(n) == Rat(n, 1)

RatAdd(a, b) == Rat(a.num * b.den + b.num * a.den, a.den * b.den)

RatMul(a, b) == Rat(a.num * b.num, a.den * b.den)

\* a / b, the denominator kept non-negative
RatDiv(a, b) ==
    IF a.den * b.num < 0
    THEN Rat(-(a.num * b.den), -(a.den * b.num))
    ELSE Rat(a.num * b.den, a.den * b.num)

RatLt(a, b) == a.num * b.den < b.num * a.den

RatLeq(a, b) == a.num * b.den <= b.num * a.den

RatEq(a, b) == a.num * b.den = b.num * a.den

----------------------------------------------------------------------------
\* Python list indexing: lst[i] with i possibly negative.

PyIndexOK(lst, i) == -Len(lst) <= i /\ i < Len(lst)

PyPos(lst, i) == IF i < 0 THEN i + Len(lst) + 1 ELSE i + 1

PyGet(lst, i) == lst[PyPos(lst, i)]

Range(n) == [j \in 1..n |-> j - 1]

SeqSum(s) ==
    LET RECURSIVE Sum(_)
        Sum(k) == IF k = 0 THEN 0 ELSE s[k] + Sum(k - 1)
    IN Sum(Len(s))

----------------------------------------------------------------------------
\* risk_tsp.nearest_neighbor

\* [False] * n
AllFalse(n) == [j \in 1..n |-> FALSE]

\* the j of `for j in range(n) if not visited[j]`, in scan order
Unvisited(vis) == SelectSeq(Range(Len(vis)), LAMBDA j : ~vis[j + 1])

\* mat[last][j] raises IndexError for some j of the comprehension
ChoicesRaise(m, vis, last) ==
    \E c \in 1..Len(Unvisited(vis)) : ~PyIndexOK(PyGet(m, last), Unvisited(vis)[c])

\* choices = [(j, mat[last][j]) for j in range(n) if not visited[j]]
Choices(m, vis, last) ==
    [c \in 1..Len(Unvisited(vis)) |->
        <<Unvisited(vis)[c], PyGet(PyGet(m, last), Unvisited(vis)[c])>>]

\* a mutant of MinByKey: the last of the smallest elements
MinByKeyLast(choices) ==
    choices[CHOOSE c \in 1..Len(choices) :
        /\ \A e \in 1..Len(choices) : RatLeq(choices[c][2], choices[e][2])
        /\ \A e \in (c + 1)..Len(choices) : RatLt(choices[c][2], choices[e][2])]

\* min(choices, key=lambda x: x[1]): the first of the smallest elements
MinByKey(choices) ==
    choices[CHOOSE c \in 1..Len(choices) :
        /\ \A e \in 1..Len(choices) : RatLeq(choices[c][2], choices[e][2])
        /\ \A e \in 1..(c - 1) : RatLt(choices[c][2], choices[e][2])]

\* a mutant of NNEnter: the start node is not marked visited
NNEnterUnmarked ==
    /\ pc = "nearest_neighbor"
    /\ order' = <<start>>
    /\ it' = 0
    /\ visited' = AllFalse(Len(mat))
    /\ IF PyIndexOK(AllFalse(Len(mat)), start)
       THEN pc' = "loop" /\ exc' = exc
       ELSE pc' = "done" /\ exc' = "IndexError"
    /\ UNCHANGED <<ret, df, alpha, mat, start>>
    /\ UNCHANGED bayesVars
    /\ UNCHANGED <<planVars, etlVars, storeVars, mainVars, fetchVars, countryVars>>

\* a mutant of NNEnter: visited outlives the call when the size is the same
NNEnterKeepVisited ==
    /\ pc = "nearest_neighbor"
    /\ order' = <<start>>
    /\ it' = 0
    /\ IF PyIndexOK(AllFalse(Len(mat)), start)
       THEN /\ visited' = [(IF Len(visited) = Len(mat) THEN visited
                            ELSE AllFalse(Len(mat)))
                               EXCEPT ![PyPos(mat, start)] = TRUE]
            /\ pc' = "loop"
            /\ exc' = exc
       ELSE /\ visited' = AllFalse(Len(mat))
            /\ pc' = "done"
            /\ exc' = "IndexError"
    /\ UNCHANGED <<ret, df, alpha, mat, start>>
    /\ UNCHANGED bayesVars
    /\ UNCHANGED <<planVars, etlVars, storeVars, mainVars, fetchVars, countryVars>>

\* lines 64-67: n, visited, order, visited[start] = True
NNEnter ==
    /\ pc = "nearest_neighbor"
    /\ order' = <<start>>
    /\ it' = 0
    /\ IF PyIndexOK(AllFalse(Len(mat)), start)
       THEN /\ visited' = [AllFalse(Len(mat)) EXCEPT ![PyPos(mat, start)] = TRUE]
            /\ pc' = "loop"
            /\ exc' = exc
       ELSE /\ visited' = AllFalse(Len(mat))
            /\ pc' = "done"
            /\ exc' = "IndexError"
    /\ UNCHANGED <<ret, df, alpha, mat, start>>
    /\ UNCHANGED bayesVars
    /\ UNCHANGED <<planVars, etlVars, storeVars, mainVars, fetchVars, countryVars>>

\* lines 68-75: one iteration of the loop
NNStep ==
    /\ pc = "loop"
    /\ it < Len(mat) - 1
    /\ LET last == PyGet(order, -1) IN
       IF ChoicesRaise(mat, visited, last)
       THEN /\ pc' = "done"
            /\ exc' = "IndexError"
            /\ UNCHANGED <<ret, order, visited, it>>
       ELSE IF Choices(mat, visited, last) = <<>>
       THEN /\ pc' = "done"
            /\ ret' = order
            /\ UNCHANGED <<exc, order, visited, it>>
       ELSE LET nxt == MinByKey(Choices(mat, visited, last))[1] IN
            /\ order' = Append(order, nxt)
            /\ visited' = [visited EXCEPT ![nxt + 1] = TRUE]
            /\ it' = it + 1
            /\ UNCHANGED <<pc, exc, ret>>
    /\ UNCHANGED <<df, alpha, mat, start>>
    /\ UNCHANGED bayesVars
    /\ UNCHANGED <<planVars, etlVars, storeVars, mainVars, fetchVars, countryVars>>

\* line 76: the range is exhausted, return order
NNReturn ==
    /\ pc = "loop"
    /\ it >= Len(mat) - 1
    /\ pc' = "done"
    /\ ret' = order
    /\ UNCHANGED <<exc, df, alpha, mat, start, visited, order, it>>
    /\ UNCHANGED bayesVars
    /\ UNCHANGED <<planVars, etlVars, storeVars, mainVars, fetchVars, countryVars>>

\* lines 62-76 as a function of its arguments: the exception raised, or the
\* order returned
nearest_neighbor(m, s) ==
    LET RECURSIVE Loop(_, _, _)
        Loop(vis, ord, k) ==
            IF k >= Len(m) - 1 THEN [exc |-> "None", order |-> ord]
            ELSE IF ChoicesRaise(m, vis, PyGet(ord, -1))
            THEN [exc |-> "IndexError", order |-> <<>>]
            ELSE IF Choices(m, vis, PyGet(ord, -1)) = <<>>
            THEN [exc |-> "None", order |-> ord]
            ELSE LET nxt == MinByKey(Choices(m, vis, PyGet(ord, -1)))[1]
                 IN Loop([vis EXCEPT ![nxt + 1] = TRUE], Append(ord, nxt), k + 1)
    IN IF PyIndexOK(AllFalse(Len(m)), s)
       THEN Loop([AllFalse(Len(m)) EXCEPT ![PyPos(m, s)] = TRUE], <<s>>, 0)
       ELSE [exc |-> "IndexError", order |-> <<>>]

----------------------------------------------------------------------------
\* The matrices and starts nearest_neighbor is called with.

Pairs(n) == {p \in (0..(n - 1)) \X (0..(n - 1)) : p[1] < p[2]}

\* the symmetric, zero-diagonal n x n matrix with weights w above the diagonal
SymMatrix(n, w) ==
    [i \in 1..n |-> [j \in 1..n |->
        IF i = j THEN RatInt(0)
        ELSE IF i < j THEN RatInt(w[<<i - 1, j - 1>>])
        ELSE RatInt(w[<<j - 1, i - 1>>])]]

\* ways a caller's matrix departs from such a matrix
Defects(n) ==
    {[kind |-> "none", i |-> 0, j |-> 0]}
    \cup {[kind |-> "asym", i |-> p[1], j |-> p[2]] :
            p \in {q \in (0..(n - 1)) \X (0..(n - 1)) : q[1] # q[2]}}
    \cup {[kind |-> k, i |-> r, j |-> 0] :
            k \in {"diag", "short", "long"}, r \in 0..(n - 1)}

ApplyDefect(m, d) ==
    CASE d.kind = "none" -> m
      [] d.kind = "asym" -> [m EXCEPT ![d.i + 1][d.j + 1] = RatAdd(@, RatInt(1))]
      [] d.kind = "diag" -> [m EXCEPT ![d.i + 1][d.i + 1] = RatInt(1)]
      [] d.kind = "short" -> [m EXCEPT ![d.i + 1] = SubSeq(@, 1, Len(@) - 1)]
      [] d.kind = "long" -> [m EXCEPT ![d.i + 1] = Append(@, RatInt(0))]

InputMatrices ==
    UNION {{ApplyDefect(SymMatrix(n, w), d) :
                w \in [Pairs(n) -> 0..MaxW], d \in Defects(n)} : n \in 0..MaxN}

InputStarts == (-(MaxN + 1))..MaxN

IsSquare(m) == \A r \in 1..Len(m) : Len(m[r]) = Len(m)

IsSymmetric(m) ==
    /\ IsSquare(m)
    /\ \A i, j \in 1..Len(m) : RatEq(m[i][j], m[j][i])

IsNonNegative(m) ==
    \A r \in 1..Len(m) : \A c \in 1..Len(m[r]) : RatLeq(RatInt(0), m[r][c])

\* a permutation of 0..n-1
IsPermutation(s, n) ==
    /\ Len(s) = n
    /\ \A v \in 0..(n - 1) : Cardinality({q \in 1..Len(s) : s[q] = v}) = 1

----------------------------------------------------------------------------
\* Specification NN: direct calls nearest_neighbor(mat, start).

InitIdleBayes ==
    /\ admin_df = <<>>
    /\ prior = [alpha |-> 1, beta |-> 1]
    /\ grouped = <<>>

InitIdlePlan ==
    /\ call = "direct"
    /\ method = "auto"
    /\ ortools = FALSE
    /\ solver = "None"
    /\ assignment = [status |-> "unsolved", next |-> <<>>]
    /\ route = <<>>

InitIdleEtl ==
    /\ events = <<>>
    /\ aggregated = <<>>

InitIdleStore ==
    /\ name = <<>>
    /\ sql = <<>>
    /\ monthly = <<>>
    /\ ddl = "transactional"
    /\ db = <<>>
    /\ committed = <<>>
    /\ old = <<>>

InitIdleMain ==
    /\ csv = [exists |-> FALSE, columns |-> {}, rows |-> <<>>]
    /\ args = [source_csv |-> FALSE, dry_run |-> FALSE,
               source_table |-> <<>>, destination_table |-> <<>>]
    /\ steps = <<>>

InitIdleFetch ==
    /\ dest = [exists |-> FALSE, complete |-> FALSE]
    /\ meta = 0
    /\ remote = 0
    /\ runs = 0
    /\ loaded = <<>>

InitIdleCountry ==
    /\ admin2_df = <<>>
    /\ monthly_df = <<>>

InitNN ==
    /\ pc = "nearest_neighbor"
    /\ exc = "None"
    /\ ret = <<>>
    /\ df = <<>>
    /\ alpha = 1
    /\ mat \in InputMatrices
    /\ start \in InputStarts
    /\ visited = <<>>
    /\ order = <<>>
    /\ it = 0
    /\ InitIdleBayes
    /\ InitIdlePlan
    /\ InitIdleEtl
    /\ InitIdleStore
    /\ InitIdleMain
    /\ InitIdleFetch
    /\ InitIdleCountry

NextNN == NNEnter \/ NNStep \/ NNReturn

SpecNN == InitNN /\ [][NextNN]_vars

----------------------------------------------------------------------------
\* risk_tsp.haversine and risk_tsp.distance_matrix

\* The coordinates of the model, in whole degrees.
Degrees == {0, 1}

\* haversine(lon1, lat1, lon2, lat2) on Degrees, in metres: the value of
\* 6371.0 * 2 * asin(sqrt(sin(dlat/2)^2 + cos(lat1) cos(lat2) sin(dlon/2)^2))
\* kilometres times 1000, rounded (111.19492..., 111.17799..., 157.24938...).
haversine(lon1, lat1, lon2, lat2) ==
    CASE lon1 = lon2 /\ lat1 = lat2 -> RatInt(0)
      [] lon1 = lon2 /\ lat1 # lat2 -> RatInt(111195)
      [] lon1 # lon2 /\ lat1 = lat2 /\ lat1 = 0 -> RatInt(111195)
      [] lon1 # lon2 /\ lat1 = lat2 /\ lat1 = 1 -> RatInt(111178)
      [] lon1 # lon2 /\ lat1 # lat2 -> RatInt(157249)

\* the unweighted distance between rows i and j of frame d (positions from 1)
Geodesic(d, i, j) == haversine(d[i].lon, d[i].lat, d[j].lon, d[j].lat)

\* a mutant of Weighted: the sum of the two risks is not halved
WeightedNoHalf(d, a, i, j) ==
    RatMul(Geodesic(d, i, j),
           RatAdd(RatInt(1), RatMul(RatInt(a), RatAdd(d[i].risk, d[j].risk))))

\* lines 56-57: d = haversine(...); d *= 1 + alpha * (risk[i] + risk[j]) / 2
Weighted(d, a, i, j) ==
    RatMul(Geodesic(d, i, j),
           RatAdd(RatInt(1),
                  RatDiv(RatMul(RatInt(a), RatAdd(d[i].risk, d[j].risk)),
                         RatInt(2))))

\* a mutant of distance_matrix: only mat[i][j], i < j, is stored
distance_matrixUpper(d, a) ==
    [i \in 1..Len(d) |-> [j \in 1..Len(d) |->
        IF i < j THEN Weighted(d, a, i, j) ELSE RatInt(0)]]

\* lines 52-59: mat[i][j] = mat[j][i] = d for i < j, 0.0 elsewhere
distance_matrix(d, a) ==
    [i \in 1..Len(d) |-> [j \in 1..Len(d) |->
        IF i = j THEN RatInt(0)
        ELSE IF i < j THEN Weighted(d, a, i, j)
        ELSE Weighted(d, a, j, i)]]

\* mat = distance_matrix(df, alpha=alpha), then nearest_neighbor(mat)
DistanceMatrix ==
    /\ pc = "distance_matrix"
    /\ mat' = distance_matrix(df, alpha)
    /\ pc' = "nearest_neighbor"
    /\ UNCHANGED <<exc, ret, df, alpha, start, visited, order, it>>
    /\ UNCHANGED bayesVars
    /\ UNCHANGED <<planVars, etlVars, storeVars, mainVars, fetchVars, countryVars>>

\* The frames and weights distance_matrix is called with.
InputRisks == {Rat(-1, 2), Rat(0, 1), Rat(1, 2), Rat(1, 1)}

InputRoadRows ==
    {[lon |-> x, lat |-> y, risk |-> r] :
        x \in Degrees, y \in Degrees, r \in InputRisks}

InputFrames == UNION {[1..n -> InputRoadRows] : n \in 0..MaxN}

InputAlphas == {-1, 0, 1}

----------------------------------------------------------------------------
\* Specification Route: nearest_neighbor(distance_matrix(df, alpha)), the
\* greedy path of plan_route and of test_distance_matrix_and_nn.

InitRoute ==
    /\ pc = "distance_matrix"
    /\ exc = "None"
    /\ ret = <<>>
    /\ df \in InputFrames
    /\ alpha \in InputAlphas
    /\ mat = <<>>
    /\ start = 0
    /\ visited = <<>>
    /\ order = <<>>
    /\ it = 0
    /\ InitIdleBayes
    /\ InitIdlePlan
    /\ InitIdleEtl
    /\ InitIdleStore
    /\ InitIdleMain
    /\ InitIdleFetch
    /\ InitIdleCountry

NextRoute == DistanceMatrix \/ NNEnter \/ NNStep \/ NNReturn

SpecRoute == InitRoute /\ [][NextRoute]_vars

----------------------------------------------------------------------------
\* bayesian.estimate_event_rate and bayesian.admin_event_rates

\* The admin2 names of the model, in the sorted order groupby returns them.
\* "NULL" is a missing admin2_name (the LEFT JOIN of enrich_monthly found no
\* region); groupby drops such rows.
RegionOrder == <<"a", "b">>

Regions == {RegionOrder[k] : k \in 1..Len(RegionOrder)}

\* the group keys of df.groupby("admin2"): the names present, sorted
GroupKeys(d) ==
    SelectSeq(RegionOrder, LAMBDA r : \E k \in 1..Len(d) : d[k].admin2 = r)

\* the events column of the group of region r
GroupEvents(d, r) ==
    LET rows == SelectSeq(d, LAMBDA row : row.admin2 = r)
    IN [k \in 1..Len(rows) |-> rows[k].events]

\* one row of grouped: months="count", total_events="sum", then pred_rate
GroupRow(r, months, total, a, b) ==
    [admin2 |-> r, months |-> months, total_events |-> total,
     pred_rate |-> RatDiv(RatInt(a + total), RatInt(b + months))]

\* a mutant of estimate_event_rate: the prior pseudo-count alpha is left out
estimate_event_rateNoPrior(d, a, b) ==
    [g \in 1..Len(GroupKeys(d)) |->
        GroupRow(GroupKeys(d)[g], Len(GroupEvents(d, GroupKeys(d)[g])),
                 SeqSum(GroupEvents(d, GroupKeys(d)[g])), 0, b)]

\* a mutant of estimate_event_rate: numerator and denominator are swapped
estimate_event_rateSwapped(d, a, b) ==
    [g \in 1..Len(GroupKeys(d)) |->
        [GroupRow(GroupKeys(d)[g], Len(GroupEvents(d, GroupKeys(d)[g])),
                  SeqSum(GroupEvents(d, GroupKeys(d)[g])), a, b)
         EXCEPT !.pred_rate = Rat(@.den, @.num)]]

\* a mutant of estimate_event_rate: a row for every known region, present in
\* the frame or not
estimate_event_rateAllRegions(d, a, b) ==
    [g \in 1..Len(RegionOrder) |->
        GroupRow(RegionOrder[g], Len(GroupEvents(d, RegionOrder[g])),
                 SeqSum(GroupEvents(d, RegionOrder[g])), a, b)]

\* lines 25-34: group, aggregate, pred_rate = (alpha + total) / (beta + months)
estimate_event_rate(d, a, b) ==
    [g \in 1..Len(GroupKeys(d)) |->
        GroupRow(GroupKeys(d)[g], Len(GroupEvents(d, GroupKeys(d)[g])),
                 SeqSum(GroupEvents(d, GroupKeys(d)[g])), a, b)]

\* round(x, 2) of a rational with den > 0, in hundredths (ties to even)
Round2(x) ==
    LET q == (x.num * 100) \div x.den
        r == (x.num * 100) % x.den
    IN IF 2 * r > x.den THEN q + 1
       ELSE IF 2 * r < x.den THEN q
       ELSE IF q % 2 = 0 THEN q ELSE q + 1

\* The monthly frames and hyperparameters of the model.
InputMonthlyRows ==
    {[admin2 |-> r, events |-> e] :
        r \in Regions \cup {"NULL"}, e \in 0..MaxEvents}

InputMonthly == UNION {[1..n -> InputMonthlyRows] : n \in 0..MaxRows}

InputPriors == [alpha : {-1, 0, 1, 2}, beta : {-1, 0, 1, 2}]

\* admin_event_rates line 38: df = fetch_admin_monthly(engine)
FetchAdminMonthly ==
    /\ pc = "admin_event_rates"
    /\ \E t \in InputMonthly : admin_df' = t
    /\ pc' = "estimate_event_rate"
    /\ UNCHANGED <<exc, ret, prior, grouped>>
    /\ UNCHANGED routeVars
    /\ UNCHANGED <<planVars, etlVars, storeVars, mainVars, fetchVars, countryVars>>

\* admin_event_rates line 39: return estimate_event_rate(df, alpha, beta)
EstimateEventRate ==
    /\ pc = "estimate_event_rate"
    /\ grouped' = estimate_event_rate(admin_df, prior.alpha, prior.beta)
    /\ pc' = "done"
    /\ UNCHANGED <<exc, ret, admin_df, prior>>
    /\ UNCHANGED routeVars
    /\ UNCHANGED <<planVars, etlVars, storeVars, mainVars, fetchVars, countryVars>>

----------------------------------------------------------------------------
\* Specification Bayes: admin_event_rates(engine, alpha, beta).

InitIdleRoute ==
    /\ df = <<>>
    /\ alpha = 1
    /\ mat = <<>>
    /\ start = 0
    /\ visited = <<>>
    /\ order = <<>>
    /\ it = 0

InitBayes ==
    /\ pc = "admin_event_rates"
    /\ exc = "None"
    /\ ret = <<>>
    /\ admin_df = <<>>
    /\ prior \in InputPriors
    /\ grouped = <<>>
    /\ InitIdleRoute
    /\ InitIdlePlan
    /\ InitIdleEtl
    /\ InitIdleStore
    /\ InitIdleMain
    /\ InitIdleFetch
    /\ InitIdleCountry

NextBayes == FetchAdminMonthly \/ EstimateEventRate

SpecBayes == InitBayes /\ [][NextBayes]_vars

----------------------------------------------------------------------------
\* Specification Calls: a caller makes one call after another, each either
\* nearest_neighbor(mat, start) or nearest_neighbor(distance_matrix(df, alpha)).
\* The locals of an earlier call (visited, order, it) and its result stay in
\* the state until a later call assigns them, as nothing in risk_tsp.py
\* (no module-level variable, lines 1-14) carries them over.

\* the matrices of the calls: symmetric, every weight 0 or 1
CallMatrices ==
    UNION {{SymMatrix(n, w) : w \in [Pairs(n) -> 0..1]} : n \in 0..MaxCallN}

CallRows ==
    {[lon |-> 0, lat |-> y, risk |-> r] :
        y \in Degrees, r \in {Rat(0, 1), Rat(1, 1)}}

CallFrames == UNION {[1..n -> CallRows] : n \in 0..MaxCallN}

\* the caller starts its next call
NextCall ==
    /\ pc \in {"idle", "done"}
    /\ exc' = "None"
    /\ \E direct \in BOOLEAN :
        IF direct
        THEN /\ pc' = "nearest_neighbor"
             /\ mat' \in CallMatrices
             /\ start' \in 0..MaxCallN
             /\ UNCHANGED <<df, alpha>>
        ELSE /\ pc' = "distance_matrix"
             /\ df' \in CallFrames
             /\ alpha' \in {0, 1}
             /\ start' = 0
             /\ UNCHANGED mat
    /\ UNCHANGED <<ret, visited, order, it>>
    /\ UNCHANGED <<bayesVars, planVars, etlVars, storeVars, mainVars, fetchVars, countryVars>>

InitCalls ==
    /\ pc = "idle"
    /\ exc = "None"
    /\ ret = <<>>
    /\ InitIdleRoute
    /\ InitIdleBayes
    /\ InitIdlePlan
    /\ InitIdleEtl
    /\ InitIdleStore
    /\ InitIdleMain
    /\ InitIdleFetch
    /\ InitIdleCountry

NextCalls ==
    \/ NextCall
    \/ DistanceMatrix
    \/ NNEnter
    \/ NNStep
    \/ NNReturn

SpecCalls == InitCalls /\ [][NextCalls]_vars

----------------------------------------------------------------------------
\* risk_tsp.fetch_road_risk

\* df["length_m"].replace({0: 1})
ReplaceZero(len) == IF len.num = 0 /\ len.den # 0 THEN RatInt(1) ELSE len

\* line 46: df["events"] / df["length_m"].replace({0: 1}), for one row
EventRisk(row) == RatDiv(RatInt(row.events), ReplaceZero(row.length_m))

\* lines 45-47: the rows the query returns, with the risk column added
fetch_road_risk(rows) ==
    [k \in 1..Len(rows) |-> [risk |-> EventRisk(rows[k])] @@ rows[k]]

\* The segment lengths of the model, in metres: 0, 1/2 and 2.
InputLengths == {Rat(0, 1), Rat(1, 2), Rat(2, 1)}

\* COUNT(e.event_id) per segment
InputEventCounts == {0, 2}

\* The midpoints of the segments, by position in the frame.
PositionLayouts ==
    {<<[lon |-> 0, lat |-> 0], [lon |-> 0, lat |-> 1],
       [lon |-> 1, lat |-> 1], [lon |-> 1, lat |-> 0]>>,
     <<[lon |-> 0, lat |-> 0], [lon |-> 1, lat |-> 1],
       [lon |-> 0, lat |-> 1], [lon |-> 1, lat |-> 0]>>}

\* The rows the query of fetch_road_risk returns: ORDER BY r.id, at most
\* MaxSegments of them (LIMIT :lim).
InputSegments ==
    UNION {{[k \in 1..n |->
                [road_id |-> k, events |-> e[k], lon |-> lay[k].lon,
                 lat |-> lay[k].lat, length_m |-> len[k]]] :
             e \in [1..n -> InputEventCounts], len \in [1..n -> InputLengths],
             lay \in PositionLayouts} : n \in 0..MaxSegments}

----------------------------------------------------------------------------
\* risk_tsp.ortools_tsp and risk_tsp.plan_route

\* The routes of n nodes that start at the depot, node 0.
DepotRoutes(n) ==
    {p \in [1..n -> 0..(n - 1)] :
        /\ \A i, j \in 1..n : i # j => p[i] # p[j]
        /\ n > 0 => p[1] = 0}

\* assignment.Value(routing.NextVar(index)) for every index of route p; the
\* end index of the single vehicle is n
NextVars(p) ==
    [idx \in 1..Len(p) |->
        LET at == CHOOSE q \in 1..Len(p) : p[q] = idx - 1
        IN IF at = Len(p) THEN Len(p) ELSE p[at + 1]]

\* What the engine does with n nodes (lines 84-93): SolveWithParameters
\* returns no assignment ("none") or the assignment of a route ("found").
\* With no node the depot 0 is no node of the model: the engine raises on
\* construction ("error") or ends without an assignment.
EngineOutcomes(n) ==
    {[status |-> "none", next |-> <<>>]}
    \cup (IF n = 0 THEN {[status |-> "error", next |-> <<>>]}
          ELSE {[status |-> "found", next |-> NextVars(p)] : p \in DepotRoutes(n)})

\* lines 94-100: follow NextVar from routing.Start(0) until routing.IsEnd
WalkAssignment(next) ==
    LET RECURSIVE Walk(_, _)
        Walk(index, acc) ==
            IF index >= Len(next) \/ Len(acc) >= Len(next) THEN acc
            ELSE Walk(next[index + 1], Append(acc, index))
    IN Walk(0, <<>>)

\* a mutant of UsesOrtools: method "auto" takes the exact solver always
UsesOrtoolsAlways(m, available) == m = "ortools" \/ m = "auto"

\* line 108: method == "ortools" or (method == "auto" and _ORTOOLS_AVAILABLE)
UsesOrtools(m, available) == m = "ortools" \/ (m = "auto" /\ available)

\* a mutant of IlocAssign: the order column holds the node, not the rank
IlocAssignNode(d, o) ==
    [k \in 1..Len(o) |-> [order |-> o[k]] @@ PyGet(d, o[k])]

\* line 112: df.iloc[order].assign(order=range(len(order)))
IlocAssign(d, o) ==
    [k \in 1..Len(o) |-> [order |-> k - 1] @@ PyGet(d, o[k])]

\* plan_route line 106: df = fetch_road_risk(limit=limit, engine=engine)
FetchRoadRisk ==
    /\ pc = "plan_route"
    /\ \E rows \in InputSegments : df' = fetch_road_risk(rows)
    /\ pc' = "select_solver"
    /\ UNCHANGED <<exc, ret, alpha, mat, start, visited, order, it>>
    /\ UNCHANGED <<bayesVars, planVars, etlVars, storeVars, mainVars, fetchVars, countryVars>>

\* plan_route lines 107-111: the matrix, then the solver the method selects
SelectSolver ==
    /\ pc = "select_solver"
    /\ mat' = distance_matrix(df, alpha)
    /\ IF UsesOrtools(method, ortools)
       THEN solver' = "ortools_tsp" /\ pc' = "ortools_tsp"
       ELSE solver' = "nearest_neighbor" /\ pc' = "nearest_neighbor"
    /\ UNCHANGED <<exc, ret, df, alpha, start, visited, order, it>>
    /\ UNCHANGED <<call, method, ortools, assignment, route>>
    /\ UNCHANGED <<bayesVars, etlVars, storeVars, mainVars, fetchVars, countryVars>>

\* ortools_tsp lines 79-101
OrtoolsTsp ==
    /\ pc = "ortools_tsp"
    /\ IF ~ortools
       THEN /\ pc' = "nearest_neighbor"
            /\ UNCHANGED <<assignment, order, ret, exc>>
       ELSE \E a \in EngineOutcomes(Len(mat)) :
            /\ assignment' = a
            /\ IF a.status = "found"
               THEN /\ order' = WalkAssignment(a.next)
                    /\ ret' = WalkAssignment(a.next)
                    /\ pc' = "done"
                    /\ exc' = exc
               ELSE IF a.status = "error"
               THEN /\ pc' = "done"
                    /\ exc' = "Exception"
                    /\ UNCHANGED <<order, ret>>
               ELSE /\ pc' = "nearest_neighbor"
                    /\ UNCHANGED <<order, ret, exc>>
    /\ UNCHANGED <<df, alpha, mat, start, visited, it>>
    /\ UNCHANGED <<call, method, ortools, solver, route>>
    /\ UNCHANGED <<bayesVars, etlVars, storeVars, mainVars, fetchVars, countryVars>>

\* plan_route line 112, or the solver's exception leaving plan_route
PlanReturn ==
    /\ pc = "done"
    /\ call = "plan_route"
    /\ pc' = "returned"
    /\ IF exc = "None"
       THEN IF \A k \in 1..Len(ret) : PyIndexOK(df, ret[k])
            THEN route' = IlocAssign(df, ret) /\ exc' = exc
            ELSE route' = route /\ exc' = "IndexError"
       ELSE route' = route /\ exc' = exc
    /\ UNCHANGED <<ret, df, alpha, mat, start, visited, order, it>>
    /\ UNCHANGED <<call, method, ortools, solver, assignment>>
    /\ UNCHANGED <<bayesVars, etlVars, storeVars, mainVars, fetchVars, countryVars>>

\* The values of the method argument the model passes.
InputMethods == {"auto", "ortools", "greedy", "exact"}

----------------------------------------------------------------------------
\* bayesian.road_segment_risk

\* lines 46-58: roads LEFT JOIN geo_admin2 ON ST_Intersects: one row for each
\* region a road intersects, and one row with a NULL admin2 for a road that
\* intersects none
JoinRoads(roads) ==
    LET RegionRows(r) ==
            LET hit == SelectSeq(RegionOrder, LAMBDA g : g \in r.regions)
            IN IF hit = <<>>
               THEN <<[road_id |-> r.road_id, length_m |-> r.length_m,
                       admin2 |-> "NULL"]>>
               ELSE [k \in 1..Len(hit) |->
                        [road_id |-> r.road_id, length_m |-> r.length_m,
                         admin2 |-> hit[k]]]
        RECURSIVE Rows(_)
        Rows(k) == IF k > Len(roads) THEN <<>>
                   ELSE RegionRows(roads[k]) \o Rows(k + 1)
    IN Rows(1)

\* line 60: df.merge(rates[["admin2", "pred_rate"]], on="admin2", how="left");
\* a row without a rate keeps a missing pred_rate, Rat(0, 0)
MergeLeft(rows, rates) ==
    LET Matches(row) == SelectSeq(rates, LAMBDA g : g.admin2 = row.admin2)
        Merged(row) ==
            IF Matches(row) = <<>>
            THEN <<[pred_rate |-> Rat(0, 0)] @@ row>>
            ELSE [k \in 1..Len(Matches(row)) |->
                     [pred_rate |-> Matches(row)[k].pred_rate] @@ row]
        RECURSIVE Rows(_)
        Rows(k) == IF k > Len(rows) THEN <<>>
                   ELSE Merged(rows[k]) \o Rows(k + 1)
    IN Rows(1)

\* df["pred_rate"].fillna(0)
FillNa0(x) == IF x.num = 0 /\ x.den = 0 THEN RatInt(0) ELSE x

\* a mutant of RateRisk: the length is used as it is
RateRiskRawLength(row) == RatDiv(FillNa0(row.pred_rate), row.length_m)

\* line 61: df["pred_rate"].fillna(0) / df["length_m"].replace({0: 1})
RateRisk(row) == RatDiv(FillNa0(row.pred_rate), ReplaceZero(row.length_m))

\* lines 44-62
road_segment_risk(admin_monthly, a, b, roads) ==
    LET merged == MergeLeft(JoinRoads(roads), estimate_event_rate(admin_monthly, a, b))
    IN [k \in 1..Len(merged) |-> [risk |-> RateRisk(merged[k])] @@ merged[k]]

\* The roads table: the regions whose geometry each road intersects.
InputRoads ==
    UNION {{[k \in 1..n |->
                [road_id |-> k, length_m |-> len[k], regions |-> g[k]]] :
             len \in [1..n -> InputLengths], g \in [1..n -> SUBSET Regions]} :
           n \in 0..MaxRoads}

\* The monthly table behind the rates of road_segment_risk.
InputRateMonthly ==
    UNION {[1..n -> InputMonthlyRows] : n \in 0..MaxRateRows}

\* The priors road_segment_risk is called with.
InputRiskPriors == [alpha : {-1, 1}, beta : {-1, 1}]

\* road_segment_risk, the whole call
RoadSegmentRisk ==
    /\ pc = "road_segment_risk"
    /\ \E admin_monthly \in InputRateMonthly, roads \in InputRoads :
        /\ admin_df' = admin_monthly
        /\ grouped' = estimate_event_rate(admin_monthly, prior.alpha, prior.beta)
        /\ df' = road_segment_risk(admin_monthly, prior.alpha, prior.beta, roads)
    /\ pc' = "returned"
    /\ UNCHANGED <<exc, ret, alpha, mat, start, visited, order, it, prior>>
    /\ UNCHANGED <<planVars, etlVars, storeVars, mainVars, fetchVars, countryVars>>

InitRisk ==
    /\ call \in {"plan_route", "road_segment_risk"}
    /\ pc = call
    /\ exc = "None"
    /\ ret = <<>>
    /\ df = <<>>
    /\ mat = <<>>
    /\ start = 0
    /\ visited = <<>>
    /\ order = <<>>
    /\ it = 0
    /\ admin_df = <<>>
    /\ grouped = <<>>
    /\ solver = "None"
    /\ assignment = [status |-> "unsolved", next |-> <<>>]
    /\ route = <<>>
    /\ IF call = "plan_route"
       THEN /\ method \in InputMethods
            /\ ortools \in BOOLEAN
            /\ alpha \in {0, 1}
            /\ prior = [alpha |-> 1, beta |-> 1]
       ELSE /\ method = "auto"
            /\ ortools = FALSE
            /\ alpha = 1
            /\ prior \in InputRiskPriors
    /\ InitIdleEtl
    /\ InitIdleStore
    /\ InitIdleMain
    /\ InitIdleFetch
    /\ InitIdleCountry

NextRisk ==
    \/ FetchRoadRisk
    \/ SelectSolver
    \/ OrtoolsTsp
    \/ NNEnter
    \/ NNStep
    \/ NNReturn
    \/ PlanReturn
    \/ RoadSegmentRisk

SpecRisk == InitRisk /\ [][NextRisk]_vars

----------------------------------------------------------------------------
\* etl.events_to_monthly.aggregate_events_dataframe
\*
\* A cell of the raw frame is written as its text; "NULL" is a missing cell
\* (None / NaN).  String methods are tables over the texts of the model.

\* pd.to_datetime(cell, errors="coerce"): the year and month, or NaT
to_datetime(v) ==
    CASE v = "2024-01-15" -> [nat |-> FALSE, year |-> 2024, month |-> 1]
      [] v = "2024-02-01" -> [nat |-> FALSE, year |-> 2024, month |-> 2]
      [] OTHER -> [nat |-> TRUE, year |-> 0, month |-> 0]

\* str.strip()
Strip(v) ==
    CASE v = "SDN " -> "SDN"
      [] v = "Sudan " -> "Sudan"
      [] OTHER -> v

\* str.upper()
Upper(v) ==
    CASE v = "sdn" -> "SDN"
      [] v = "tcd" -> "TCD"
      [] OTHER -> v

\* pd.to_numeric(cell, errors="coerce").fillna(0).astype("int64")
ToInt64(v) ==
    LET numeric == CASE v = "1" -> RatInt(1)
                     [] v = "2" -> RatInt(2)
                     [] OTHER -> Rat(0, 0)
    IN FillNa0(numeric).num \div FillNa0(numeric).den

\* a mutant of Kept: no row is dropped
KeptAll(ev) == ev

\* lines 128-129: dropna(subset=["event_date", "iso"]) after to_datetime
Kept(ev) ==
    SelectSeq(ev, LAMBDA r : ~to_datetime(r.event_date).nat /\ r.iso # "NULL")

\* lines 135-143: the cleaned columns of one row
Cleaned(r) ==
    LET iso == Upper(Strip(r.iso))
    IN [iso |-> iso,
        country |-> Strip(IF r.country = "NULL" THEN iso ELSE r.country),
        year |-> to_datetime(r.event_date).year,
        month |-> to_datetime(r.event_date).month,
        fatalities |-> ToInt64(r.fatalities)]

\* the group key of a cleaned row
KeyOf(c) ==
    [iso |-> c.iso, country |-> c.country, year |-> c.year, month |-> c.month]

\* the order of the texts of the model as Python strings
StringRank(v) ==
    CASE v = "Chad" -> 1
      [] v = "SDN" -> 2
      [] v = "Sudan" -> 3
      [] v = "TCD" -> 4
      [] OTHER -> 0

\* groupby sorts its keys; sort_values(["iso", "year", "month"]) is stable
KeyLess(a, b) ==
    LET x == <<StringRank(a.iso), a.year, a.month, StringRank(a.country)>>
        y == <<StringRank(b.iso), b.year, b.month, StringRank(b.country)>>
    IN \E i \in 1..4 : x[i] < y[i] /\ \A j \in 1..(i - 1) : x[j] = y[j]

\* the keys of set ks in output order
SortedKeys(ks) ==
    LET RECURSIVE Sort(_)
        Sort(rest) ==
            IF rest = {} THEN <<>>
            ELSE LET least == CHOOSE a \in rest :
                                  \A b \in rest \ {a} : KeyLess(a, b)
                 IN <<least>> \o Sort(rest \ {least})
    IN Sort(ks)

\* lines 111-160
aggregate_events_dataframe(ev) ==
    IF ev = <<>> \/ Kept(ev) = <<>> THEN <<>>
    ELSE LET frame == [k \in 1..Len(Kept(ev)) |-> Cleaned(Kept(ev)[k])]
             keys == SortedKeys({KeyOf(frame[k]) : k \in 1..Len(frame)})
             Members(key) == SelectSeq(frame, LAMBDA c : KeyOf(c) = key)
         IN [g \in 1..Len(keys) |->
                [iso |-> keys[g].iso, country |-> keys[g].country,
                 year |-> keys[g].year, month |-> keys[g].month,
                 events |-> Len(Members(keys[g])),
                 fatalities |->
                     SeqSum([k \in 1..Len(Members(keys[g])) |->
                                Members(keys[g])[k].fatalities])]]

\* The rows of the raw frame: every iso, country and date of the model with
\* 2 fatalities, the other fatalities cells for one of them, and a second
\* country.
InputEventRows ==
    {[iso |-> i, country |-> c, event_date |-> d, fatalities |-> "2"] :
        i \in {"sdn", "SDN ", "NULL"}, c \in {"Sudan", "Sudan ", "NULL"},
        d \in {"2024-01-15", "2024-02-01", "bad"}}
    \cup {[iso |-> "sdn", country |-> "Sudan", event_date |-> "2024-01-15",
           fatalities |-> f] : f \in {"1", "x", "NULL"}}
    \cup {[iso |-> "tcd", country |-> "Chad", event_date |-> "2024-02-01",
           fatalities |-> "1"]}

InputEvents == UNION {[1..n -> InputEventRows] : n \in 0..MaxEventRows}

\* aggregate_events_dataframe(events), the whole call
AggregateEvents ==
    /\ pc = "aggregate_events_dataframe"
    /\ aggregated' = aggregate_events_dataframe(events)
    /\ pc' = "returned"
    /\ UNCHANGED <<exc, ret, events>>
    /\ UNCHANGED <<routeVars, bayesVars, planVars, storeVars, mainVars, fetchVars, countryVars>>

InitMonthly ==
    /\ pc = "aggregate_events_dataframe"
    /\ exc = "None"
    /\ ret = <<>>
    /\ events \in InputEvents
    /\ aggregated = <<>>
    /\ InitIdleRoute
    /\ InitIdleBayes
    /\ InitIdlePlan
    /\ InitIdleStore
    /\ InitIdleMain
    /\ InitIdleFetch
    /\ InitIdleCountry

NextMonthly == AggregateEvents

SpecMonthly == InitMonthly /\ [][NextMonthly]_vars

----------------------------------------------------------------------------
\* etl.events_to_monthly: identifiers
\*
\* A Python string is the sequence of its characters.

Letters == {"a"}

Digits == {"1"}

\* the characters of the model: a letter, a digit, the underscore, the dot,
\* a semicolon, a space and a quote
Alphabet == Letters \cup Digits \cup {"_", ".", ";", " ", "'"}

\* name.split(".")
SplitDots(str) ==
    LET RECURSIVE Split(_)
        Split(rest) ==
            IF \E i \in 1..Len(rest) : rest[i] = "."
            THEN LET dot == CHOOSE i \in 1..Len(rest) :
                                /\ rest[i] = "."
                                /\ \A h \in 1..(i - 1) : rest[h] # "."
                 IN <<SubSeq(rest, 1, dot - 1)>>
                        \o Split(SubSeq(rest, dot + 1, Len(rest)))
            ELSE <<rest>>
    IN Split(str)

\* IDENTIFIER_PATTERN.fullmatch(part): ^[A-Za-z_][A-Za-z0-9_]*$
FullMatch(part) ==
    /\ Len(part) >= 1
    /\ part[1] \in Letters \cup {"_"}
    /\ \A k \in 2..Len(part) : part[k] \in Letters \cup Digits \cup {"_"}

\* a mutant of validate_identifier: only the first part is matched
validate_identifierFirstPart(str) ==
    IF str = <<>> THEN [exc |-> "ValueError", value |-> <<>>]
    ELSE IF Len(SplitDots(str)) > 2 THEN [exc |-> "ValueError", value |-> <<>>]
    ELSE IF ~FullMatch(SplitDots(str)[1])
    THEN [exc |-> "ValueError", value |-> <<>>]
    ELSE [exc |-> "None", value |-> str]

\* lines 37-52
validate_identifier(str) ==
    IF str = <<>> THEN [exc |-> "ValueError", value |-> <<>>]
    ELSE IF Len(SplitDots(str)) > 2 THEN [exc |-> "ValueError", value |-> <<>>]
    ELSE IF \E k \in 1..Len(SplitDots(str)) : ~FullMatch(SplitDots(str)[k])
    THEN [exc |-> "ValueError", value |-> <<>>]
    ELSE [exc |-> "None", value |-> str]

\* lines 55-62, for a name validate_identifier accepts; no schema is <<>>
split_identifier(str) ==
    LET parts == SplitDots(validate_identifier(str).value)
    IN IF Len(parts) = 1 THEN [schema |-> <<>>, table |-> parts[1]]
       ELSE [schema |-> parts[1], table |-> parts[2]]

\* lines 65-69: f"{schema}.{table}" if schema else table
qualify_identifier(str) ==
    IF split_identifier(str).schema # <<>>
    THEN split_identifier(str).schema \o <<".">> \o split_identifier(str).table
    ELSE split_identifier(str).table

\* The identifier arguments of the model.
InputNames == UNION {[1..n -> Alphabet] : n \in 0..MaxNameLen}

\* validate_identifier(name), the whole call
ValidateIdentifier ==
    /\ pc = "validate_identifier"
    /\ pc' = "done"
    /\ exc' = validate_identifier(name).exc
    /\ ret' = validate_identifier(name).value
    /\ UNCHANGED <<routeVars, bayesVars, planVars, etlVars, storeVars, mainVars, fetchVars, countryVars>>

\* fetch_events(engine, name), lines 97-108: the table name goes through
\* qualify_identifier before it is written into the query
FetchEvents ==
    /\ pc = "fetch_events"
    /\ pc' = "done"
    /\ exc' = validate_identifier(name).exc
    /\ IF validate_identifier(name).exc = "None"
       THEN sql' = Append(sql, qualify_identifier(name))
       ELSE sql' = sql
    /\ UNCHANGED <<ret, name, monthly, ddl, db, committed, old>>
    /\ UNCHANGED <<routeVars, bayesVars, planVars, etlVars, mainVars, fetchVars, countryVars>>

----------------------------------------------------------------------------
\* etl.events_to_monthly.write_monthly_table
\*
\* A database is a function from qualified table names to tables.  db is the
\* state the writing connection sees inside `with engine.begin() as conn`,
\* committed the state every other connection sees.  With transactional DDL
\* (PostgreSQL) nothing is committed before the block ends; with
\* implicit-commit DDL (MySQL) every DDL statement commits the work so far
\* and itself.  Any statement may fail; the block then rolls back.

\* TMP_TABLE, "_sa_monthly_violence_tmp", in the characters of the model
TMP_TABLE == <<"_", "a">>

Absent == [exists |-> FALSE, rows |-> <<>>]

\* lines 169-172
DestQualified == qualify_identifier(name)

TmpQualified ==
    IF split_identifier(name).schema # <<>>
    THEN split_identifier(name).schema \o <<".">> \o TMP_TABLE
    ELSE TMP_TABLE

\* a row of the monthly aggregate
MonthlyRow(m, e) ==
    [iso |-> "SDN", country |-> "Sudan", year |-> 2024, month |-> m,
     events |-> e, fatalities |-> 0]

\* The frames written, and the tables the database holds before the call.
InputMonthlyFrames ==
    {<<>>, <<MonthlyRow(1, 2)>>, <<MonthlyRow(1, 2), MonthlyRow(2, 1)>>}

InputTables ==
    {Absent, [exists |-> TRUE, rows |-> <<>>],
     [exists |-> TRUE, rows |-> <<MonthlyRow(1, 1)>>]}

\* One SQL statement of the block: it names table target; it fails, or it
\* succeeds when possible and leaves the tables okdb, of which durable is
\* committed at once under implicit-commit DDL.
Statement(next, target, possible, okdb, durable) ==
    /\ sql' = Append(sql, target)
    /\ \E fails \in BOOLEAN :
        IF fails \/ ~possible
        THEN /\ pc' = "done"
             /\ exc' = "DBAPIError"
             /\ committed' = (IF ddl = "implicit_commit" THEN db ELSE committed)
             /\ db' = (IF ddl = "implicit_commit" THEN db ELSE committed)
        ELSE /\ pc' = next
             /\ exc' = exc
             /\ db' = okdb
             /\ committed' = (IF ddl = "implicit_commit" THEN durable ELSE committed)
    /\ UNCHANGED <<ret, name, monthly, ddl, old>>
    /\ UNCHANGED <<routeVars, bayesVars, planVars, etlVars, mainVars, fetchVars, countryVars>>

\* lines 169-182: the names are validated before the block is entered
WriteEnter ==
    /\ pc = "write_monthly_table"
    /\ exc' = validate_identifier(name).exc
    /\ pc' = (IF validate_identifier(name).exc = "None" THEN "drop_tmp" ELSE "done")
    /\ UNCHANGED <<ret, storeVars>>
    /\ UNCHANGED <<routeVars, bayesVars, planVars, etlVars, mainVars, fetchVars, countryVars>>

\* line 184: DROP TABLE IF EXISTS tmp
WriteDropTmp ==
    /\ pc = "drop_tmp"
    /\ Statement("fill_tmp", TmpQualified, TRUE,
                 [db EXCEPT ![TmpQualified] = Absent],
                 [db EXCEPT ![TmpQualified] = Absent])

\* a mutant of WriteFillTmp: the rename is skipped over and the rows are
\* appended to the destination (to_sql with if_exists="append")
WriteFillTmpAppend ==
    /\ pc = "fill_tmp"
    /\ Statement("create_indexes", DestQualified, TRUE,
                 [db EXCEPT ![DestQualified] =
                     [exists |-> TRUE, rows |-> @.rows \o monthly]],
                 [db EXCEPT ![DestQualified] =
                     [exists |-> TRUE, rows |-> @.rows]])

\* lines 185-193: to_sql(tmp, if_exists="replace") creates the table and
\* inserts the rows; the insert is no DDL
WriteFillTmp ==
    /\ pc = "fill_tmp"
    /\ Statement("drop_dest", TmpQualified, TRUE,
                 [db EXCEPT ![TmpQualified] = [exists |-> TRUE, rows |-> monthly]],
                 [db EXCEPT ![TmpQualified] = [exists |-> TRUE, rows |-> <<>>]])

\* line 194: DROP TABLE IF EXISTS dest
WriteDropDest ==
    /\ pc = "drop_dest"
    /\ Statement("rename", DestQualified, TRUE,
                 [db EXCEPT ![DestQualified] = Absent],
                 [db EXCEPT ![DestQualified] = Absent])

\* line 195: ALTER TABLE tmp RENAME TO dest_table, an error when tmp is
\* missing or the new name is taken
WriteRename ==
    /\ pc = "rename"
    /\ Statement("create_indexes", DestQualified,
                 db[TmpQualified].exists /\ ~db[DestQualified].exists,
                 [db EXCEPT ![DestQualified] = db[TmpQualified],
                            ![TmpQualified] = Absent],
                 [db EXCEPT ![DestQualified] = db[TmpQualified],
                            ![TmpQualified] = Absent])

\* lines 196-203: the two CREATE INDEX IF NOT EXISTS on dest
WriteCreateIndexes ==
    /\ pc = "create_indexes"
    /\ Statement("commit", DestQualified, db[DestQualified].exists, db, db)

\* line 183: the block ends and engine.begin() commits
WriteCommit ==
    /\ pc = "commit"
    /\ committed' = db
    /\ pc' = "done"
    /\ UNCHANGED <<exc, ret, name, sql, monthly, ddl, db, old>>
    /\ UNCHANGED <<routeVars, bayesVars, planVars, etlVars, mainVars, fetchVars, countryVars>>

\* Specification Store: one call of validate_identifier, fetch_events or
\* write_monthly_table.
InitStore ==
    /\ call \in {"validate_identifier", "fetch_events", "write_monthly_table"}
    /\ pc = call
    /\ exc = "None"
    /\ ret = <<>>
    /\ name \in InputNames
    /\ sql = <<>>
    /\ IF call = "write_monthly_table" /\ validate_identifier(name).exc = "None"
       THEN /\ monthly \in InputMonthlyFrames
            /\ ddl \in {"transactional", "implicit_commit"}
            /\ db \in [{DestQualified, TmpQualified} -> InputTables]
       ELSE /\ monthly = <<>>
            /\ ddl = "transactional"
            /\ db = <<>>
    /\ committed = db
    /\ old = db
    /\ method = "auto"
    /\ ortools = FALSE
    /\ solver = "None"
    /\ assignment = [status |-> "unsolved", next |-> <<>>]
    /\ route = <<>>
    /\ InitIdleRoute
    /\ InitIdleBayes
    /\ InitIdleEtl
    /\ InitIdleMain
    /\ InitIdleFetch
    /\ InitIdleCountry

NextStore ==
    \/ ValidateIdentifier
    \/ FetchEvents
    \/ WriteEnter
    \/ WriteDropTmp
    \/ WriteFillTmp
    \/ WriteDropDest
    \/ WriteRename
    \/ WriteCreateIndexes
    \/ WriteCommit

SpecStore == InitStore /\ [][NextStore]_vars

----------------------------------------------------------------------------
\* etl.events_to_monthly.load_events_from_csv and main
\*
\* A CSV file is its header, a set of column names, and its data lines, each
\* a function from the columns of the header to the text of the cell.

\* line 22
REQUIRED_EVENT_COLUMNS == {"iso", "event_date"}

\* pd.read_csv reads an empty cell and the text NA as a missing value
ParseCell(cell) == IF cell \in {"", "NA"} THEN "NULL" ELSE cell

\* pd.read_csv(path): one row per data line, one column per header name
read_csv(file) ==
    [k \in 1..Len(file.rows) |->
        [c \in file.columns |-> ParseCell(file.rows[k][c])]]

\* lines 80-94
load_events_from_csv(file) ==
    IF ~file.exists THEN [exc |-> "FileNotFoundError", value |-> <<>>]
    ELSE IF REQUIRED_EVENT_COLUMNS \ file.columns # {}
    THEN [exc |-> "ValueError", value |-> <<>>]
    ELSE [exc |-> "None", value |-> read_csv(file)]

\* The data lines of the model, written with all four columns.
InputCsvLines ==
    {[iso |-> "sdn", country |-> "Sudan", event_date |-> "2024-01-15",
      fatalities |-> "2"],
     [iso |-> "", country |-> "Sudan", event_date |-> "2024-01-15",
      fatalities |-> "2"],
     [iso |-> "tcd", country |-> "Chad", event_date |-> "2024-02-01",
      fatalities |-> "1"]}

\* The headers of the model: country and fatalities, and any of the two
\* required columns.
InputCsvHeaders ==
    {{"country", "fatalities"} \cup req : req \in SUBSET REQUIRED_EVENT_COLUMNS}

\* The files of the model: no file at the path, or a header and up to
\* MaxCsvRows data lines.
InputCsvFiles ==
    {[exists |-> FALSE, columns |-> {}, rows |-> <<>>]}
    \cup {[exists |-> TRUE, columns |-> cols,
           rows |-> [k \in 1..Len(lines) |-> [c \in cols |-> lines[k][c]]]] :
              cols \in InputCsvHeaders,
              lines \in UNION {[1..n -> InputCsvLines] : n \in 0..MaxCsvRows}}

\* The command lines of the model: a table name the pattern accepts and one
\* it rejects for each of --source-table and --destination-table.
InputArgs ==
    [source_csv : BOOLEAN, dry_run : BOOLEAN,
     source_table : {<<"a">>, <<"a", ";">>},
     destination_table : {<<"a", "1">>, <<"'">>}]

\* The events table of the database before the run.
InputSourceTables ==
    {Absent, [exists |-> TRUE, rows |-> <<>>],
     [exists |-> TRUE,
      rows |-> <<[iso |-> "sdn", country |-> "Sudan",
                  event_date |-> "2024-01-15", fatalities |-> "2"]>>]}

\* The databases of the model: the source table, the destination table and
\* no temporary table.
InputDatabases(a) ==
    {[t \in {qualify_identifier(a.source_table),
             qualify_identifier(a.destination_table), TMP_TABLE} |->
         IF t = TMP_TABLE THEN Absent
         ELSE IF t = qualify_identifier(a.source_table) THEN s ELSE d] :
            s \in InputSourceTables, d \in InputTables}

\* main, lines 236-240: both table names are validated before anything is
\* read
MainValidate ==
    /\ pc = "main"
    /\ IF \/ validate_identifier(args.source_table).exc # "None"
          \/ validate_identifier(args.destination_table).exc # "None"
       THEN /\ pc' = "done"
            /\ exc' = "ValueError"
       ELSE /\ pc' = (IF args.source_csv THEN "main_load" ELSE "main_fetch")
            /\ exc' = exc
    /\ UNCHANGED <<ret, etlVars, storeVars, mainVars>>
    /\ UNCHANGED <<routeVars, bayesVars, planVars, fetchVars, countryVars>>

\* a mutant of MainLoadCsv: the error of the loader is swallowed and the
\* pipeline goes on with an empty frame
MainLoadCsvSwallow ==
    /\ pc = "main_load"
    /\ steps' = Append(steps, "load_events_from_csv")
    /\ exc' = "None"
    /\ events' = load_events_from_csv(csv).value
    /\ pc' = "main_aggregate"
    /\ UNCHANGED <<ret, aggregated, storeVars, csv, args>>
    /\ UNCHANGED <<routeVars, bayesVars, planVars, fetchVars, countryVars>>

\* main, line 241: events = load_events_from_csv(args.source_csv); an
\* exception leaves main
MainLoadCsv ==
    /\ pc = "main_load"
    /\ steps' = Append(steps, "load_events_from_csv")
    /\ exc' = load_events_from_csv(csv).exc
    /\ IF load_events_from_csv(csv).exc = "None"
       THEN /\ events' = load_events_from_csv(csv).value
            /\ pc' = "main_aggregate"
       ELSE /\ events' = events
            /\ pc' = "done"
    /\ UNCHANGED <<ret, aggregated, storeVars, csv, args>>
    /\ UNCHANGED <<routeVars, bayesVars, planVars, fetchVars, countryVars>>

\* main, lines 243-245: ensure_table_exists raises RuntimeError when the
\* source table is missing; fetch_events selects the rows whose event_date
\* and iso are not null
MainFetch ==
    /\ pc = "main_fetch"
    /\ IF ~db[qualify_identifier(args.source_table)].exists
       THEN /\ pc' = "done"
            /\ exc' = "RuntimeError"
            /\ UNCHANGED <<events, sql, steps>>
       ELSE /\ pc' = "main_aggregate"
            /\ exc' = exc
            /\ sql' = Append(sql, qualify_identifier(args.source_table))
            /\ events' = SelectSeq(db[qualify_identifier(args.source_table)].rows,
                                   LAMBDA r : r.event_date # "NULL" /\ r.iso # "NULL")
            /\ steps' = Append(steps, "fetch_events")
    /\ UNCHANGED <<ret, aggregated, name, monthly, ddl, db, committed, old, csv, args>>
    /\ UNCHANGED <<routeVars, bayesVars, planVars, fetchVars, countryVars>>

\* main, line 246: monthly = aggregate_events_dataframe(events)
MainAggregate ==
    /\ pc = "main_aggregate"
    /\ aggregated' = aggregate_events_dataframe(events)
    /\ steps' = Append(steps, "aggregate_events_dataframe")
    /\ pc' = "main_write"
    /\ UNCHANGED <<exc, ret, events, storeVars, csv, args>>
    /\ UNCHANGED <<routeVars, bayesVars, planVars, fetchVars, countryVars>>

\* main, lines 248-255: a dry run returns; otherwise write_monthly_table is
\* called with the aggregate and the destination table
MainWrite ==
    /\ pc = "main_write"
    /\ IF args.dry_run
       THEN /\ pc' = "done"
            /\ UNCHANGED <<name, monthly, steps>>
       ELSE /\ pc' = "write_monthly_table"
            /\ name' = args.destination_table
            /\ monthly' = aggregated
            /\ steps' = Append(steps, "write_monthly_table")
    /\ UNCHANGED <<exc, ret, etlVars, sql, ddl, db, committed, old, csv, args>>
    /\ UNCHANGED <<routeVars, bayesVars, planVars, fetchVars, countryVars>>

\* Specification Main: one run of main of events_to_monthly.
InitMain ==
    /\ pc = "main"
    /\ exc = "None"
    /\ ret = <<>>
    /\ args \in InputArgs
    /\ csv \in (IF args.source_csv THEN InputCsvFiles
                ELSE {[exists |-> FALSE, columns |-> {}, rows |-> <<>>]})
    /\ steps = <<>>
    /\ name = <<>>
    /\ sql = <<>>
    /\ monthly = <<>>
    /\ ddl \in {"transactional", "implicit_commit"}
    /\ db \in InputDatabases(args)
    /\ committed = db
    /\ old = db
    /\ InitIdleRoute
    /\ InitIdleBayes
    /\ InitIdlePlan
    /\ InitIdleEtl
    /\ InitIdleFetch
    /\ InitIdleCountry

NextMain ==
    \/ MainValidate
    \/ MainLoadCsv
    \/ MainFetch
    \/ MainAggregate
    \/ MainWrite
    \/ WriteEnter
    \/ WriteDropTmp
    \/ WriteFillTmp
    \/ WriteDropDest
    \/ WriteRename
    \/ WriteCreateIndexes
    \/ WriteCommit

SpecMain == InitMain /\ [][NextMain]_vars

----------------------------------------------------------------------------
\* etl.sudan_admin2_monthly.aggregate_country_monthly
\*
\* A row of the Admin2 frame is written with the columns the function reads:
\* iso3, year, month, events, fatalities, and the admin2 it belongs to.

\* the group key of an Admin2 row, iso3 renamed to iso
CountryKey(r) == [iso |-> r.iso3, year |-> r.year, month |-> r.month]

\* groupby sorts its keys, and sort_values(["iso", "year", "month"]) keeps
\* that order
CountryKeyLess(a, b) ==
    LET x == <<StringRank(a.iso), a.year, a.month>>
        y == <<StringRank(b.iso), b.year, b.month>>
    IN \E i \in 1..3 : x[i] < y[i] /\ \A j \in 1..(i - 1) : x[j] = y[j]

\* the keys of set ks in output order
SortedCountryKeys(ks) ==
    LET RECURSIVE Sort(_)
        Sort(rest) ==
            IF rest = {} THEN <<>>
            ELSE LET least == CHOOSE a \in rest :
                                  \A b \in rest \ {a} : CountryKeyLess(a, b)
                 IN <<least>> \o Sort(rest \ {least})
    IN Sort(ks)

\* a mutant of aggregate_country_monthly: .first() in place of .sum()
aggregate_country_monthlyFirst(d) ==
    LET keys == SortedCountryKeys({CountryKey(d[k]) : k \in 1..Len(d)})
        Members(key) == SelectSeq(d, LAMBDA r : CountryKey(r) = key)
    IN [g \in 1..Len(keys) |->
           [iso |-> keys[g].iso, year |-> keys[g].year, month |-> keys[g].month,
            events |-> Members(keys[g])[1].events,
            fatalities |-> Members(keys[g])[1].fatalities]]

\* lines 104-113
aggregate_country_monthly(d) ==
    LET keys == SortedCountryKeys({CountryKey(d[k]) : k \in 1..Len(d)})
        Members(key) == SelectSeq(d, LAMBDA r : CountryKey(r) = key)
    IN [g \in 1..Len(keys) |->
           [iso |-> keys[g].iso, year |-> keys[g].year, month |-> keys[g].month,
            events |->
                SeqSum([k \in 1..Len(Members(keys[g])) |->
                           Members(keys[g])[k].events]),
            fatalities |->
                SeqSum([k \in 1..Len(Members(keys[g])) |->
                           Members(keys[g])[k].fatalities])]]

\* The Admin2 rows of the model, as transform_admin2_monthly leaves them:
\* iso3 an upper-case string, year and month integers (no key is missing:
\* lines 74, 87 and 89 make them str and int or raise), events and
\* fatalities integers.
InputAdmin2Rows ==
    [iso3 : {"SDN", "TCD"}, admin2 : {"Geisan"}, year : {2023, 2024},
     month : {1, 2}, events : {1, 2}, fatalities : {0, 1}]

InputAdmin2Frames ==
    UNION {[1..n -> InputAdmin2Rows] : n \in 0..MaxAdmin2Rows}

\* aggregate_country_monthly(admin2_df), the whole call
AggregateCountryMonthly ==
    /\ pc = "aggregate_country_monthly"
    /\ monthly_df' = aggregate_country_monthly(admin2_df)
    /\ pc' = "returned"
    /\ UNCHANGED <<exc, ret, admin2_df>>
    /\ UNCHANGED <<routeVars, bayesVars, planVars, etlVars, storeVars, mainVars, fetchVars>>

\* Specification Country: one call of aggregate_country_monthly.
InitCountry ==
    /\ pc = "aggregate_country_monthly"
    /\ exc = "None"
    /\ ret = <<>>
    /\ admin2_df \in InputAdmin2Frames
    /\ monthly_df = <<>>
    /\ InitIdleRoute
    /\ InitIdleBayes
    /\ InitIdlePlan
    /\ InitIdleEtl
    /\ InitIdleStore
    /\ InitIdleMain
    /\ InitIdleFetch

NextCountry == AggregateCountryMonthly

SpecCountry == InitCountry /\ [][NextCountry]_vars

----------------------------------------------------------------------------
\* scripts.fetch_hdx_sudan_admin2
\*
\* dest is the CSV file on disk: whether it exists and whether it holds a
\* whole download.  meta is last_modified of the metadata file and remote
\* last_modified (or revision_timestamp) of the resource at HDX; 0 stands
\* for None, which read_metadata().get gives when there is no metadata file
\* and resource.get gives when the resource carries neither field.  A path
\* is written <<"dest">>, the return value None <<"None">>.

\* main, lines 93-104: a run starts; the resource at HDX may have been
\* updated since the last run
FetchMain ==
    /\ pc \in {"idle", "done"}
    /\ runs < MaxRuns
    /\ runs' = runs + 1
    /\ remote' \in {remote} \cup {v \in {remote + 1} : v <= MaxVersion}
    /\ pc' = "metadata_request"
    /\ exc' = "None"
    /\ ret' = <<>>
    /\ UNCHANGED <<dest, meta, loaded>>
    /\ UNCHANGED <<routeVars, bayesVars, planVars, etlVars, storeVars, mainVars, countryVars>>

\* fetch_latest_csv, lines 32-69: the package request fails (the cached
\* file is returned when dest exists), the package has no CSV resource, or
\* the resource is found and compared with the metadata file
MetadataRequest ==
    /\ pc = "metadata_request"
    /\ \E outcome \in {"error", "no_resource", "ok"} :
        CASE outcome = "error" ->
                 IF dest.exists
                 THEN /\ ret' = <<"dest">>
                      /\ pc' = "returned"
                      /\ exc' = exc
                 ELSE /\ exc' = "RequestException"
                      /\ pc' = "done"
                      /\ ret' = ret
          [] outcome = "no_resource" ->
                 /\ exc' = "RuntimeError"
                 /\ pc' = "done"
                 /\ ret' = ret
          [] outcome = "ok" ->
                 IF meta = remote /\ dest.exists
                 THEN /\ ret' = <<"None">>
                      /\ pc' = "returned"
                      /\ exc' = exc
                 ELSE /\ pc' = "download"
                      /\ UNCHANGED <<exc, ret>>
    /\ UNCHANGED fetchVars
    /\ UNCHANGED <<routeVars, bayesVars, planVars, etlVars, storeVars, mainVars, countryVars>>

\* fetch_latest_csv, lines 71-81: the download is refused before dest is
\* opened, breaks after open(dest, "wb") has truncated the file and some
\* chunks were written, or runs to the end
Download ==
    /\ pc = "download"
    /\ \E outcome \in {"refused", "broken", "complete"} :
        CASE outcome = "refused" ->
                 /\ exc' = "RequestException"
                 /\ pc' = "done"
                 /\ dest' = dest
          [] outcome = "broken" ->
                 /\ exc' = "RequestException"
                 /\ pc' = "done"
                 /\ dest' = [exists |-> TRUE, complete |-> FALSE]
          [] outcome = "complete" ->
                 /\ exc' = exc
                 /\ pc' = "write_metadata"
                 /\ dest' = [exists |-> TRUE, complete |-> TRUE]
    /\ UNCHANGED <<ret, meta, remote, runs, loaded>>
    /\ UNCHANGED <<routeVars, bayesVars, planVars, etlVars, storeVars, mainVars, countryVars>>

\* fetch_latest_csv, lines 83-90: write_metadata records last_modified and
\* dest is returned
WriteMetadata ==
    /\ pc = "write_metadata"
    /\ meta' = remote
    /\ ret' = <<"dest">>
    /\ pc' = "returned"
    /\ UNCHANGED <<exc, dest, remote, runs, loaded>>
    /\ UNCHANGED <<routeVars, bayesVars, planVars, etlVars, storeVars, mainVars, countryVars>>

\* main, lines 105-112: None stands for dest too; unless --skip-load was
\* given the file is handed to load_admin2_monthly_csv
MainLoad ==
    /\ pc = "returned"
    /\ \E skip_load \in BOOLEAN :
        loaded' = (IF skip_load THEN loaded ELSE <<dest>>)
    /\ pc' = "done"
    /\ UNCHANGED <<exc, ret, dest, meta, remote, runs>>
    /\ UNCHANGED <<routeVars, bayesVars, planVars, etlVars, storeVars, mainVars, countryVars>>

\* Specification Fetch: up to MaxRuns runs of the script, one after the
\* other, from a checkout with no CSV and no metadata file.
InitFetch ==
    /\ pc = "idle"
    /\ exc = "None"
    /\ ret = <<>>
    /\ dest = [exists |-> FALSE, complete |-> FALSE]
    /\ meta = 0
    /\ remote \in 0..1
    /\ runs = 0
    /\ loaded = <<>>
    /\ InitIdleRoute
    /\ InitIdleBayes
    /\ InitIdlePlan
    /\ InitIdleEtl
    /\ InitIdleStore
    /\ InitIdleMain
    /\ InitIdleCountry

NextFetch ==
    \/ FetchMain
    \/ MetadataRequest
    \/ Download
    \/ WriteMetadata
    \/ MainLoad

SpecFetch == InitFetch /\ [][NextFetch]_vars

----------------------------------------------------------------------------
\* Properties of nearest_neighbor and distance_matrix.

Returned == pc = "done" /\ exc = "None"

C1_Precondition ==
    /\ Len(mat) >= 1
    /\ IsSymmetric(mat)
    /\ IsNonNegative(mat)
    /\ start \in 0..(Len(mat) - 1)

\* C1: for N >= 1, a complete symmetric non-negative N x N matrix and a start
\* in 0..N-1, nearest_neighbor returns a list of length N that begins with
\* start and holds each index 0..N-1 exactly once.
C1_RouteIsPermutation ==
    (pc = "done" /\ C1_Precondition) =>
        /\ exc = "None"
        /\ IsPermutation(ret, Len(mat))
        /\ ret[1] = start

C1_Witness ==
    /\ Returned
    /\ C1_Precondition
    /\ Len(mat) = 3
    /\ start = 1
    /\ ret[3] = 0

\* C2: with zero road rows (the matrix is the empty list) distance_matrix
\* followed by nearest_neighbor returns an empty route and raises no error.
C2_EmptyRouteNoError ==
    (pc = "done" /\ Len(df) = 0) => (exc = "None" /\ ret = <<>>)

\* C3: a matrix that is not square or not symmetric is refused with an error
\* at the function boundary, before any route element is computed, and no
\* order is returned.  Stated for the default call nearest_neighbor(mat).
C3_MalformedMatrixRejected ==
    (pc = "done" /\ start = 0 /\ ~IsSymmetric(mat)) =>
        (exc # "None" /\ it = 0)

\* C4: a start outside 0..N-1 surfaces an error to the caller; no returned
\* route holds an index outside 0..N-1.  Stated for well-formed matrices.
C4_StartOutOfRangeRejected ==
    IsSymmetric(mat) =>
        /\ (pc = "done" /\ start \notin 0..(Len(mat) - 1)) => exc # "None"
        /\ Returned => \A q \in 1..Len(ret) : ret[q] \in 0..(Len(mat) - 1)

C5_Precondition ==
    /\ alpha >= 0
    /\ \A k \in 1..Len(df) : RatLeq(RatInt(0), df[k].risk)

\* C5: for risk >= 0 on every row and risk weight alpha >= 0, distance_matrix
\* returns an N x N matrix with a zero diagonal, mat[i][j] = mat[j][i], and
\* every off-diagonal entry at least the unweighted geodesic distance.
C5_MatrixSymmetricZeroDiagonalDominates ==
    (pc # "distance_matrix" /\ C5_Precondition) =>
        /\ Len(mat) = Len(df)
        /\ IsSquare(mat)
        /\ \A i \in 1..Len(mat) : mat[i][i] = RatInt(0)
        /\ \A i, j \in 1..Len(mat) : mat[i][j] = mat[j][i]
        /\ \A i, j \in 1..Len(mat) :
              i # j => RatLeq(Geodesic(df, i, j), mat[i][j])

C5_Witness ==
    /\ pc # "distance_matrix"
    /\ C5_Precondition
    /\ Len(df) = 3
    /\ alpha = 1
    /\ RatLt(Geodesic(df, 3, 1), mat[3][1])
    /\ RatEq(Geodesic(df, 2, 1), mat[2][1])
    /\ RatLt(RatInt(0), mat[2][1])

----------------------------------------------------------------------------
\* Properties of estimate_event_rate.

\* the rows of the monthly frame that belong to region r
RowsOf(r) == {k \in 1..Len(admin_df) : admin_df[k].admin2 = r}

\* s: the sum of the events of region r, row by row
TotalOf(r) ==
    LET RECURSIVE Upto(_)
        Upto(k) ==
            IF k = 0 THEN 0
            ELSE Upto(k - 1) + (IF k \in RowsOf(r) THEN admin_df[k].events ELSE 0)
    IN Upto(Len(admin_df))

PositivePrior == prior.alpha > 0 /\ prior.beta > 0

TestFrame ==
    /\ admin_df = <<[admin2 |-> "a", events |-> 2],
                    [admin2 |-> "a", events |-> 1],
                    [admin2 |-> "b", events |-> 0]>>
    /\ prior = [alpha |-> 1, beta |-> 1]

C8_PositiveOnePerRegion ==
    (pc = "done" /\ PositivePrior) =>
        /\ \A g \in 1..Len(grouped) :
              grouped[g].pred_rate.num > 0 /\ grouped[g].pred_rate.den > 0
        /\ \A r \in Regions :
              Cardinality({g \in 1..Len(grouped) : grouped[g].admin2 = r})
                  = IF RowsOf(r) # {} THEN 1 ELSE 0
        /\ \A g \in 1..Len(grouped) : grouped[g].admin2 \in Regions

C8_Witness ==
    /\ Returned
    /\ PositivePrior
    /\ Cardinality(RowsOf("a")) = 2
    /\ TotalOf("a") = 0
    /\ RowsOf("b") # {}
    /\ RowsOf("NULL") = {}

\* C9: for fixed alpha, beta > 0 the predicted rate does not decrease with
\* the total of events at equal months, and does not increase with the
\* months at equal totals.
C9_Monotone ==
    (pc = "done" /\ PositivePrior) =>
        \A g, h \in 1..Len(grouped) :
            /\ (grouped[g].months = grouped[h].months
                /\ grouped[g].total_events <= grouped[h].total_events)
                  => RatLeq(grouped[g].pred_rate, grouped[h].pred_rate)
            /\ (grouped[g].total_events = grouped[h].total_events
                /\ grouped[g].months <= grouped[h].months)
                  => RatLeq(grouped[h].pred_rate, grouped[g].pred_rate)

C9_Witness ==
    /\ Returned
    /\ PositivePrior
    /\ Len(grouped) = 2
    /\ grouped[1].total_events = grouped[2].total_events
    /\ grouped[1].months < grouped[2].months
    /\ RatLt(grouped[2].pred_rate, grouped[1].pred_rate)

\* C10: with alpha <= 0 or beta <= 0 the call fails with an input-validation
\* error and returns no rate table.  Stated for frames that have rows.
C10_NonPositivePriorRejected ==
    (pc = "done" /\ ~PositivePrior /\ admin_df # <<>>) =>
        (exc # "None" /\ grouped = <<>>)

\* C11: estimate_event_rate on a frame with zero rows returns a frame with
\* zero rows and raises no error.
C11_EmptyFrameEmptyOutput ==
    (pc = "done" /\ call = "direct" /\ Len(admin_df) = 0) =>
        (exc = "None" /\ Len(grouped) = 0)

C11_Witness ==
    /\ Returned
    /\ pc = "done"
    /\ call = "direct"
    /\ admin_df = <<>>
    /\ grouped = <<>>
    /\ prior = [alpha |-> 1, beta |-> 1]

----------------------------------------------------------------------------
\* Properties of the risk scores.

\* a and b are the same number: finite and equal, or the same IEEE special
SameNumber(a, b) ==
    IF a.den = 0 \/ b.den = 0
    THEN a.den = b.den /\ ((a.num > 0) <=> (b.num > 0)) /\ ((a.num < 0) <=> (b.num < 0))
    ELSE RatEq(a, b)

\* the frame df holds scored rows: fetch_road_risk or road_segment_risk ran
Scored ==
    \/ call = "plan_route" /\ pc # "plan_route"
    \/ call = "road_segment_risk" /\ pc = "returned"

\* the numerator of a scored row: the event count, else the joined rate, else 0
Numerator(row) ==
    IF call = "plan_route" THEN RatInt(row.events) ELSE FillNa0(row.pred_rate)

\* max(length_m, 1.0)
FlooredLength(len) == IF RatLt(len, RatInt(1)) THEN RatInt(1) ELSE len

\* C12: every scored segment's risk is its numerator divided by
\* max(length_m, 1), so a segment shorter than 1 is scored as if of length 1
\* (stated for positive hyperparameters, where every numerator is finite).
C12_RiskDividesByFlooredLength ==
    (Scored /\ prior.alpha > 0 /\ prior.beta > 0) =>
        \A k \in 1..Len(df) :
            Numerator(df[k]).den > 0 =>
                SameNumber(df[k].risk,
                           RatDiv(Numerator(df[k]), FlooredLength(df[k].length_m)))

\* C13: a segment of length 0 raises nothing and is scored by its numerator
\* divided by 1: its event count (fetch_road_risk) or its joined predicted
\* rate, 0 when none joined (road_segment_risk); the risk is finite whenever
\* the numerator is.
C13_ZeroLengthDividesByOne ==
    Scored =>
        \A k \in 1..Len(df) :
            (df[k].length_m.num = 0 /\ df[k].length_m.den > 0) =>
                /\ exc # "ZeroDivisionError"
                /\ SameNumber(df[k].risk, Numerator(df[k]))
                /\ Numerator(df[k]).den > 0 => df[k].risk.den > 0

C13_Witness ==
    /\ Scored
    /\ call = "road_segment_risk"
    /\ exc = "None"
    /\ prior = [alpha |-> 1, beta |-> 1]
    /\ \E k \in 1..Len(df) :
        /\ df[k].length_m = Rat(0, 1)
        /\ df[k].admin2 = "a"
        /\ SameNumber(df[k].pred_rate, Rat(3, 2))
        /\ SameNumber(df[k].risk, Rat(3, 2))

\* C14: every scored row has a risk that is a number and is >= 0, and a row
\* of road_segment_risk whose region matched no rate has risk exactly 0.
C14_RiskNonNegative ==
    Scored =>
        \A k \in 1..Len(df) :
            /\ df[k].risk.den > 0
            /\ df[k].risk.num >= 0
            /\ (call = "road_segment_risk" /\ df[k].pred_rate = Rat(0, 0)) =>
                   df[k].risk.num = 0

----------------------------------------------------------------------------
\* Properties of plan_route.

\* the weight of the edge between rows i and j if row i carried no risk
RiskFreeEdge(d, a, i, j) ==
    RatMul(Geodesic(d, i, j),
           RatAdd(RatInt(1), RatDiv(RatMul(RatInt(a), d[j].risk), RatInt(2))))

\* C15: in the matrix plan_route builds, a segment with no recorded event has
\* a strictly positive risk, and with a positive alpha every edge to another
\* place weighs more than it would if the segment were risk-free.
C15_UnderObservedNotRiskFree ==
    (call = "plan_route" /\ solver # "None") =>
        \A k \in 1..Len(df) :
            df[k].events = 0 =>
                /\ df[k].risk.num > 0
                /\ \A j \in 1..Len(df) :
                    (alpha > 0 /\ Geodesic(df, k, j).num > 0) =>
                        RatLt(RiskFreeEdge(df, alpha, k, j), mat[k][j])

OrtoolsEnded == solver = "ortools_tsp" /\ pc \in {"done", "returned"}

\* C17: when the exact solver is called and the engine is unavailable or
\* finds no assignment, the solver raises nothing and returns the order
\* nearest_neighbor(mat) returns; an assignment's route is returned unchanged.
C17_FallbackIsNearestNeighbor ==
    (OrtoolsEnded /\ assignment.status # "error") =>
        /\ exc = "None"
        /\ IF assignment.status = "found"
           THEN NextVars(ret) = assignment.next
           ELSE ret = nearest_neighbor(mat, 0).order

\* the segments of a result, the order column left out
Segments(r) ==
    {[f \in (DOMAIN r[k]) \ {"order"} |-> r[k][f]] : k \in 1..Len(r)}

\* C18: the result of a run in which the exact solver found the route tells
\* it apart from the result of the greedy fallback on the same segments: it
\* carries a flag of the solver, or the two differ in more than the order.
C18_SolverObservable ==
    (call = "plan_route" /\ pc = "returned" /\ exc = "None"
        /\ assignment.status = "found") =>
        \/ \E k \in 1..Len(route) : "solver" \in DOMAIN route[k]
        \/ Segments(route)
               # Segments(IlocAssign(df, nearest_neighbor(mat, 0).order))

\* C19: when plan_route returns, the result has one row per input segment,
\* the order column counts 0, 1, ..., N-1 down the rows, and the row with
\* order k is the input segment at position ret[k] of the solver's route,
\* which names every segment once.
C19_RouteRowsFollowOrder ==
    (call = "plan_route" /\ pc = "returned" /\ exc = "None") =>
        /\ Len(route) = Len(df)
        /\ IsPermutation(ret, Len(df))
        /\ \A k \in 1..Len(route) :
            /\ route[k].order = k - 1
            /\ [f \in (DOMAIN route[k]) \ {"order"} |-> route[k][f]]
                   = df[ret[k] + 1]

C19_Witness ==
    /\ call = "plan_route"
    /\ pc = "returned"
    /\ exc = "None"
    /\ assignment.status = "found"
    /\ ret = <<0, 2, 1>>
    /\ nearest_neighbor(mat, 0).order = <<0, 1, 2>>
    /\ route[2].order = 1
    /\ route[2].road_id = 3

----------------------------------------------------------------------------
\* Properties of aggregate_events_dataframe.

\* the input rows with an iso and a date that parses
ValidRows == {k \in 1..Len(events) :
                 events[k].iso # "NULL" /\ ~to_datetime(events[k].event_date).nat}

\* the numeric value of a fatalities cell, 0 when missing or not numeric
FatalitiesOf(k) ==
    CASE events[k].fatalities = "1" -> 1
      [] events[k].fatalities = "2" -> 2
      [] OTHER -> 0

\* the key of input row k: the iso upper-cased and trimmed, the country as
\* given, the year and the month
RawKey(k) ==
    [iso |-> Upper(Strip(events[k].iso)), country |-> events[k].country,
     year |-> to_datetime(events[k].event_date).year,
     month |-> to_datetime(events[k].event_date).month]

\* the key of input row k with the country trimmed, a missing country
\* replaced by the iso of the key
CleanKey(k) ==
    [RawKey(k) EXCEPT !.country =
        Strip(IF @ = "NULL" THEN RawKey(k).iso ELSE @)]

\* the sum of f over the finite set S
SetSum(S, f(_)) ==
    LET RECURSIVE Sum(_)
        Sum(T) == IF T = {} THEN 0
                  ELSE LET x == CHOOSE y \in T : TRUE
                       IN f(x) + Sum(T \ {x})
    IN Sum(S)

\* the valid input rows that share the raw key / the clean key of row k
RawGroup(k) == {j \in ValidRows : RawKey(j) = RawKey(k)}

CleanGroup(k) == {j \in ValidRows : CleanKey(j) = CleanKey(k)}

\* C20, as stated: one row per distinct (upper-cased trimmed iso, country as
\* given, year, month) of the valid input rows, and the row of a key holds
\* the count of its input rows and the sum of their fatalities.
C20_OneRowPerRawKey ==
    (pc = "returned" /\ call = "direct") =>
        /\ Len(aggregated) = Cardinality({RawKey(k) : k \in ValidRows})
        /\ \A k \in ValidRows :
            \E g \in 1..Len(aggregated) :
                /\ aggregated[g].iso = RawKey(k).iso
                /\ aggregated[g].year = RawKey(k).year
                /\ aggregated[g].month = RawKey(k).month
                /\ aggregated[g].events = Cardinality(RawGroup(k))
                /\ aggregated[g].fatalities = SetSum(RawGroup(k), FatalitiesOf)

\* C20, amended: one row per distinct (upper-cased trimmed iso, trimmed
\* country with a missing country replaced by that iso, year, month) of the
\* valid input rows, with their count and the sum of their fatalities, a
\* missing or non-numeric fatalities counted as 0; rows with a null iso or an
\* unparseable date are in no group.
C20_OneRowPerCleanKey ==
    (pc = "returned" /\ call = "direct") =>
        /\ Len(aggregated) = Cardinality({CleanKey(k) : k \in ValidRows})
        /\ \A k \in ValidRows :
            \E g \in 1..Len(aggregated) :
                /\ KeyOf(aggregated[g]) = CleanKey(k)
                /\ aggregated[g].events = Cardinality(CleanGroup(k))
                /\ aggregated[g].fatalities = SetSum(CleanGroup(k), FatalitiesOf)

C20_Witness ==
    /\ pc = "returned"
    /\ Len(events) = 2
    /\ events[1].iso = "sdn" /\ events[2].iso = "SDN "
    /\ events[1].country = "Sudan " /\ events[2].country = "Sudan"
    /\ events[1].event_date = "2024-01-15" /\ events[2].event_date = "2024-01-15"
    /\ aggregated = <<[iso |-> "SDN", country |-> "Sudan", year |-> 2024,
                       month |-> 1, events |-> 2, fatalities |-> 4]>>

----------------------------------------------------------------------------
\* Properties of the greedy step, the matrix formula and statelessness.

\* the nodes not in order[0..k-1], k a Python index of order
NotInOrder(k) == (0..(Len(mat) - 1)) \ {order[p] : p \in 1..k}

\* C26: every node appended as order[k], k >= 1, is a node not in
\* order[0..k-1] of least weight mat[order[k-1]][j] among those nodes, and the
\* lowest index among the nodes of that least weight (square matrix, start in
\* 0..N-1).
C26_GreedyStepLowestIndex ==
    (pc \in {"loop", "done"} /\ exc = "None" /\ call = "direct"
        /\ IsSquare(mat) /\ start \in 0..(Len(mat) - 1)) =>
        \A k \in 1..(Len(order) - 1) :
            /\ order[k + 1] \in NotInOrder(k)
            /\ \A j \in NotInOrder(k) :
                /\ RatLeq(mat[order[k] + 1][order[k + 1] + 1],
                          mat[order[k] + 1][j + 1])
                /\ RatEq(mat[order[k] + 1][order[k + 1] + 1],
                         mat[order[k] + 1][j + 1]) => order[k + 1] <= j

C26_Witness ==
    /\ Returned
    /\ call = "direct"
    /\ IsSymmetric(mat)
    /\ Len(mat) = 3
    /\ start = 0
    /\ RatEq(mat[1][2], mat[1][3])
    /\ ret = <<0, 1, 2>>

\* geodesic(i, j) * (1 + alpha * (risk_i + risk_j) / 2), multiplied out:
\* g + g * alpha * (risk_i + risk_j) / 2
ExpectedWeight(i, j) ==
    RatAdd(Geodesic(df, i, j),
           RatDiv(RatMul(Geodesic(df, i, j),
                         RatMul(RatInt(alpha), RatAdd(df[i].risk, df[j].risk))),
                  RatInt(2)))

\* C27: for every pair i # j the matrix of distance_matrix holds
\* geodesic(i, j) * (1 + alpha * (risk_i + risk_j) / 2) in both mat[i][j] and
\* mat[j][i]; with all risks 0 or alpha 0 every entry is the plain geodesic
\* distance.
C27_EntriesFollowFormula ==
    (call = "direct" /\ pc = "nearest_neighbor") =>
        /\ Len(mat) = Len(df)
        /\ \A i, j \in 1..Len(df) :
            i # j =>
                /\ Len(mat[i]) = Len(df)
                /\ RatEq(mat[i][j], ExpectedWeight(i, j))
                /\ mat[j][i] = mat[i][j]
        /\ (alpha = 0 \/ \A i \in 1..Len(df) : df[i].risk.num = 0) =>
               \A i, j \in 1..Len(df) : RatEq(mat[i][j], Geodesic(df, i, j))

C27_Witness ==
    /\ call = "direct"
    /\ pc # "distance_matrix"
    /\ alpha = 1
    /\ Len(df) = 2
    /\ df[1] = [lon |-> 0, lat |-> 0, risk |-> Rat(1, 2)]
    /\ df[2] = [lon |-> 0, lat |-> 1, risk |-> Rat(1, 1)]
    /\ RatEq(mat[1][2], Rat(7 * 111195, 4))
    /\ RatEq(mat[2][1], Rat(7 * 111195, 4))

\* C28: in any sequence of calls, nearest_neighbor leaves the matrix it is
\* given unchanged, and what a call returns (or raises) is what a first call
\* with the same matrix and start returns (or raises).
C28_NoStateAcrossCalls ==
    /\ [](pc = "done" =>
            /\ exc = nearest_neighbor(mat, start).exc
            /\ exc = "None" => ret = nearest_neighbor(mat, start).order)
    /\ [][(pc \in {"nearest_neighbor", "loop"}) => (mat' = mat)]_vars

\* a later call has returned: the frame of an earlier distance_matrix call
\* has another size than the matrix of this call
C28_Witness ==
    /\ Returned
    /\ Len(df) = 1
    /\ Len(mat) = 2
    /\ start = 1
    /\ ret = <<1, 0>>

----------------------------------------------------------------------------
\* Properties of the road scores.

\* C30: road_segment_risk returns at most one row per road_id, also for a
\* road that intersects more than one region.
C30_OneRowPerRoad ==
    (call = "road_segment_risk" /\ pc = "returned") =>
        \A k, l \in 1..Len(df) : df[k].road_id = df[l].road_id => k = l

----------------------------------------------------------------------------
\* Properties of the monthly table and of identifiers.

\* write_monthly_table has returned
Written == call = "write_monthly_table" /\ pc = "done" /\ exc = "None"

\* C21: after write_monthly_table returns, the destination table holds
\* exactly the rows of monthly, whatever it held before; an empty frame
\* leaves it with zero rows.
C21_DestinationHoldsMonthly ==
    Written =>
        /\ committed[DestQualified] = [exists |-> TRUE, rows |-> monthly]
        /\ db[DestQualified] = committed[DestQualified]

C21_Witness ==
    /\ Written
    /\ monthly = <<>>
    /\ old[DestQualified] = [exists |-> TRUE, rows |-> <<MonthlyRow(1, 1)>>]
    /\ committed[DestQualified] = [exists |-> TRUE, rows |-> <<>>]

\* C22: another connection sees the destination table with its complete old
\* contents or its complete new contents at every moment, and after a failed
\* call it sees the old contents (stated for a destination other than the
\* temporary table).
C22_AtomicReplace ==
    (call = "write_monthly_table" /\ pc # "write_monthly_table"
        /\ validate_identifier(name).exc = "None"
        /\ DestQualified # TmpQualified) =>
        /\ committed[DestQualified]
               \in {old[DestQualified], [exists |-> TRUE, rows |-> monthly]}
        /\ (pc = "done" /\ exc # "None") =>
               committed[DestQualified] = old[DestQualified]

\* str[lo..hi] is a letter or underscore followed by letters, digits and
\* underscores
PlainPart(str, lo, hi) ==
    /\ lo <= hi
    /\ str[lo] \in {"a", "_"}
    /\ \A k \in lo..hi : str[k] \in {"a", "1", "_"}

\* one such part, or two of them with a dot between
OneOrTwoParts(str) ==
    \/ PlainPart(str, 1, Len(str))
    \/ \E d \in 2..(Len(str) - 1) :
        /\ str[d] = "."
        /\ PlainPart(str, 1, d - 1)
        /\ PlainPart(str, d + 1, Len(str))

\* C23: validate_identifier returns its argument unchanged if and only if it
\* is one or two dot-separated parts matching [A-Za-z_][A-Za-z0-9_]* and
\* raises ValueError for every other string; every table name written into
\* the SQL of fetch_events and write_monthly_table is of that form.
C23_OnlyPlainIdentifiers ==
    /\ (call = "validate_identifier" /\ pc = "done") =>
           IF OneOrTwoParts(name)
           THEN exc = "None" /\ ret = name
           ELSE exc = "ValueError" /\ ret = <<>>
    /\ \A k \in 1..Len(sql) : OneOrTwoParts(sql[k])
    /\ (call \in {"fetch_events", "write_monthly_table"} /\ pc = "done"
            /\ ~OneOrTwoParts(name)) =>
           exc = "ValueError" /\ sql = <<>>

C23_Witness ==
    /\ call = "fetch_events"
    /\ pc = "done"
    /\ exc = "None"
    /\ name = <<"_", "1", ".", "a">>
    /\ sql = <<name>>

----------------------------------------------------------------------------
\* Properties of load_events_from_csv and of the pipeline of main.

\* main has called load_events_from_csv
LoaderCalled == steps # <<>> /\ steps[1] = "load_events_from_csv"

\* the call raised: main ended right after it
LoaderRaised == LoaderCalled /\ Len(steps) = 1 /\ pc = "done"

LoaderReturned == LoaderCalled /\ ~LoaderRaised

HasRequiredColumns == {"iso", "event_date"} \subseteq csv.columns

\* C24: load_events_from_csv returns only when the file exists and has both
\* columns iso and event_date, and then returns one row per data line of the
\* file with the cells read_csv parses; it raises FileNotFoundError when the
\* path does not exist and ValueError when a required column is missing;
\* and when main was given such a file, nothing is aggregated, no SQL is
\* issued and the tables stay as they were.
C24_LoaderErrorsStopMain ==
    /\ LoaderReturned =>
        /\ csv.exists /\ HasRequiredColumns
        /\ Len(events) = Len(csv.rows)
        /\ \A k \in 1..Len(events) : \A c \in csv.columns :
               events[k][c] = ParseCell(csv.rows[k][c])
    /\ (LoaderCalled /\ ~csv.exists) =>
        LoaderRaised /\ exc = "FileNotFoundError"
    /\ (LoaderCalled /\ csv.exists /\ ~HasRequiredColumns) =>
        LoaderRaised /\ exc = "ValueError"
    /\ (args.source_csv /\ (~csv.exists \/ ~HasRequiredColumns)) =>
        /\ \A k \in 1..Len(steps) :
               steps[k] \notin {"aggregate_events_dataframe", "write_monthly_table"}
        /\ aggregated = <<>>
        /\ sql = <<>>
        /\ db = old /\ committed = old

\* a file with a data line and only one of the required columns was handed
\* to main, and the loader raised ValueError
C24_Witness ==
    /\ LoaderRaised
    /\ exc = "ValueError"
    /\ csv.rows # <<>>
    /\ "iso" \in csv.columns
    /\ "event_date" \notin csv.columns

\* a file with both columns was loaded, aggregated and written
C24_LoadedAndWritten ==
    /\ LoaderReturned
    /\ events # <<>>
    /\ pc = "done"
    /\ exc = "None"
    /\ Len(steps) = 3

----------------------------------------------------------------------------
\* Properties of aggregate_country_monthly.

\* the rows of the Admin2 frame in the group of key
Admin2Group(key) == SelectSeq(admin2_df, LAMBDA r : CountryKey(r) = key)

\* the sum of column events, or of column fatalities, over the rows of frame
EventsOf(frame) == SeqSum([k \in 1..Len(frame) |-> frame[k].events])

FatalitiesIn(frame) == SeqSum([k \in 1..Len(frame) |-> frame[k].fatalities])

\* C25: aggregate_country_monthly returns exactly one row for every
\* distinct (iso, year, month) of its input and no other row; the row's
\* events and fatalities are the sums over the Admin2 rows of that group;
\* and the events of the output add up to the events of the input.
C25_CountryTotalsAreGroupSums ==
    pc = "returned" =>
        /\ \A k \in 1..Len(admin2_df) :
               Cardinality({g \in 1..Len(monthly_df) :
                   /\ monthly_df[g].iso = admin2_df[k].iso3
                   /\ monthly_df[g].year = admin2_df[k].year
                   /\ monthly_df[g].month = admin2_df[k].month}) = 1
        /\ \A g \in 1..Len(monthly_df) :
               LET key == [iso |-> monthly_df[g].iso, year |-> monthly_df[g].year,
                           month |-> monthly_df[g].month]
               IN /\ Admin2Group(key) # <<>>
                  /\ monthly_df[g].events = EventsOf(Admin2Group(key))
                  /\ monthly_df[g].fatalities = FatalitiesIn(Admin2Group(key))
        /\ EventsOf(monthly_df) = EventsOf(admin2_df)

\* two Admin2 rows of one country month with different counts were summed
\* into one row
C25_Witness ==
    /\ pc = "returned"
    /\ Len(admin2_df) = 2
    /\ CountryKey(admin2_df[1]) = CountryKey(admin2_df[2])
    /\ admin2_df[1].events # admin2_df[2].events
    /\ Len(monthly_df) = 1
    /\ monthly_df[1].events = 3

----------------------------------------------------------------------------
\* Properties of fetch_latest_csv.

\* C29: whenever fetch_latest_csv returns, by a fresh download, by "using
\* cached file" or by "already current", the file at the path handed on is
\* a complete download, never a partially written one.
C29_ReturnedFileIsComplete ==
    pc = "returned" => (dest.exists /\ dest.complete)

\* the metadata file records a last_modified only when dest holds a whole
\* download made by the run that wrote it
C29_MetadataAfterCompleteDownload ==
    [][meta' # meta => (pc = "write_metadata" /\ dest.complete /\ meta' = remote)]_vars

============================================================================
